---- MODULE Spec2Model ----
(***************************************************************************)
(* A model of the open-addressing hash table of src/hashtable.h            *)
(* (HT_DEFINE / HT_IMPLEMENT): the slot array, linear probing with         *)
(* tombstones, the resize/rehash engine and the table-wide rwlock.         *)
(***************************************************************************)
EXTENDS Integers, Sequences, FiniteSets, TLC

\* ------------------------------------------------------------------ bounds
MaxKey == 3
MaxVal == 2
MaxCapacity == 32
FillKeys == 14
ReserveStep == 4
NThreads == 2
ConcKey == 2
MaxCycles == 3

\* ------------------------------------------------------- program constants
HT_SUCCESS == 0
HT_ERROR_MEMORY == 1
HT_SLOT_EMPTY == 0
HT_SLOT_OCCUPIED == 1
HT_SLOT_DELETED == 2
InitialCapacity == 16
NoIndex == -1

Keys == 1..MaxKey
ConcKeys == 1..ConcKey
FillKeySet == 1..FillKeys
AllKeys == Keys \cup FillKeySet
Values == 1..MaxVal
Threads == 1..NThreads
MainThread == 1

VARIABLES
  entries,        \* ht->entries: 0..capacity-1 -> [key, value, state]
  capacity,       \* ht->capacity
  size,           \* ht->size (live_count)
  deleted_count,  \* ht->deleted_count (tombstone_count)
  hash,           \* ht->hash, the configured hash function: key -> uint32
  rwlock,         \* ht->rwlock: [writer |-> thread or 0, readers |-> set of threads]
  alive,          \* "none" before create, "live" after it, then "objects_freed",
                  \* "entries_freed", "lock_destroyed" and "destroyed" as destroy
                  \* proceeds; "use_after_free" once a thread has used what destroy
                  \* freed
  heap,           \* the blocks allocated and not freed: "ht" (the table struct) and
                  \* "entries" (the slot array)
  last,           \* the call that returned most recently: its name, return value, and
                  \* whether it resized
  amap,           \* the abstract key -> value map the calls so far describe (0: absent)
  pc,             \* per thread: where it is in the call it is making ("idle": in none)
  arg,            \* per thread: the key and the value (or capacity) of its call, and
                  \* whether the call has resized
  probe,          \* per thread: the locals index / first_deleted its probe loop left
  iter,           \* per thread: its iterator's index (NoIndex: no iterator)
  yielded,        \* per thread: the pairs its iterator has yielded, in order
  owned,          \* the key objects and the value objects stored in a slot and not
                  \* yet passed to key_free / value_free: how many of each
  freed           \* the calls of key_free and of value_free the latest step made

table == <<entries, capacity, size, deleted_count>>
threadvars == <<pc, arg, probe, iter, yielded>>
vars == <<entries, capacity, size, deleted_count, hash, rwlock, alive, heap, last, amap,
          pc, arg, probe, iter, yielded, owned, freed>>

\* ------------------------------------------------------------ destructors
\* key_free and value_free are configured. A count of key objects and of value
\* objects: those a step passes to the destructors, or takes into a slot.
NoneFreed == [keys |-> 0, values |-> 0]

\* The Occupied slots of table t.
OccupiedCount(t) ==
  Cardinality({i \in 0..(t.capacity - 1) : t.entries[i].state = HT_SLOT_OCCUPIED})

\* set: on the update path value_free of the old value, and the new value taken;
\* on the insert path no destructor call, and the key and the value taken.
SetFrees(found) == IF found THEN [keys |-> 0, values |-> 1] ELSE NoneFreed

SetTakes(found) ==
  IF found THEN [keys |-> 0, values |-> 1] ELSE [keys |-> 1, values |-> 1]

\* delete on a hit: key_free and value_free of the slot's pair.
DeleteFrees(hit) == IF hit THEN [keys |-> 1, values |-> 1] ELSE NoneFreed

\* clear: key_free and value_free of every Occupied slot.
ClearFrees(t) == [keys |-> OccupiedCount(t), values |-> OccupiedCount(t)]

\* A destroy that also frees what the Deleted slots still point to.
DestroyFreesTombstones(t) ==
  [keys |-> OccupiedCount(t) + t.deleted_count,
   values |-> OccupiedCount(t) + t.deleted_count]

\* destroy: key_free and value_free of every Occupied slot.
DestroyFrees(t) == [keys |-> OccupiedCount(t), values |-> OccupiedCount(t)]

\* The objects the table owns after a step that took `taken` into slots and
\* passed `gone` to the destructors.
Account(own, taken, gone) ==
  [keys |-> own.keys + taken.keys - gone.keys,
   values |-> own.values + taken.values - gone.values]

\* The table as one value, as the functions of the source see it through ht.
HT == [entries |-> entries, capacity |-> capacity, size |-> size,
       deleted_count |-> deleted_count]

\* calloc(n, sizeof(entry_t)): n zeroed slots.
ZeroEntry == [key |-> 0, value |-> 0, state |-> HT_SLOT_EMPTY]

\* A slot that is not Occupied. delete and clear write only its state and leave
\* the bytes of its key and value behind, but no function reads them: every read
\* of .key or .value (destroy, resize, set, get, delete, clear, iter_next) is
\* guarded by state == HT_SLOT_OCCUPIED, and an insertion overwrites both. The
\* model keeps these dead bytes zero.
DeadEntry(state) == [key |-> 0, value |-> 0, state |-> state]

Calloc(n) == [i \in 0..(n - 1) |-> ZeroEntry]

\* What the keys point to, when they are addresses: as a, b and c of
\* test_defaults, the first and the third key point to equal values.
Pointee(k) == ((k - 1) % 2) + 1

\* A compare that looks through the pointers and compares what they point to.
ComparePointee(k1, k2) == Pointee(k1) = Pointee(k2)

\* ht->compare, ht_compare_ptr by default: the keys of the model are compared
\* by their own value, the address when they are pointers.
Compare(k1, k2) == k1 = k2

\* ht->hash(key, user_data)
HashOf(h, key) == h[key]

\* ------------------------------------------------------------------ resize
\* A placement that does not probe: it writes the start slot whatever it holds.
PlaceIndexNoProbe(ents, cap, index, fuel) == index

\* The placement loop of resize: the first slot from index on (cyclically) that is
\* not Occupied; NoIndex when every slot is Occupied (the loop never ends).
RECURSIVE PlaceIndex(_, _, _, _)
PlaceIndex(ents, cap, index, fuel) ==
  IF ents[index].state # HT_SLOT_OCCUPIED THEN index
  ELSE IF fuel = 0 THEN NoIndex
  ELSE PlaceIndex(ents, cap, (index + 1) % cap, fuel - 1)

\* The rehash loop of resize over old slots i, i+1, ..: t is the table being
\* filled (new array, new capacity, size re-counted); size NoIndex when the
\* placement loop never ends.
RECURSIVE Rehash(_, _, _, _, _)
Rehash(t, h, old_entries, old_capacity, i) ==
  IF i >= old_capacity THEN t
  ELSE IF old_entries[i].state = HT_SLOT_OCCUPIED
    THEN LET start == HashOf(h, old_entries[i].key) % t.capacity
             index == PlaceIndex(t.entries, t.capacity, start, t.capacity)
         IN  IF index = NoIndex THEN [t EXCEPT !.size = NoIndex]
             ELSE Rehash([t EXCEPT !.entries[index] =
                                      [old_entries[i] EXCEPT !.state = HT_SLOT_OCCUPIED],
                                   !.size = @ + 1],
                         h, old_entries, old_capacity, i + 1)
    ELSE Rehash(t, h, old_entries, old_capacity, i + 1)

\* A resize that forgets to reset size before the rehash re-counts it.
ResizeStartKeepsSize(t, new_capacity) ==
  [entries |-> Calloc(new_capacity), capacity |-> new_capacity,
   size |-> t.size, deleted_count |-> 0]

\* The new array and the counters resize starts the rehash with.
ResizeStart(t, new_capacity) ==
  [entries |-> Calloc(new_capacity), capacity |-> new_capacity,
   size |-> 0, deleted_count |-> 0]

\* A resize that carries the tombstone count over to the new array.
RehashedKeepsDeletedCount(t, h, new_capacity) ==
  [Rehash(ResizeStart(t, new_capacity), h, t.entries, t.capacity, 0)
     EXCEPT !.deleted_count = t.deleted_count]

\* The table after the rehash of resize, once calloc has succeeded.
Rehashed(t, h, new_capacity) ==
  Rehash(ResizeStart(t, new_capacity), h, t.entries, t.capacity, 0)

\* A resize that installs the new capacity and resets the counters before it
\* looks at what calloc returned.
ResizePartialOnFailure(t, h, new_capacity, alloc_ok) ==
  IF alloc_ok
    THEN [ht |-> Rehashed(t, h, new_capacity), status |-> HT_SUCCESS]
    ELSE [ht |-> [t EXCEPT !.capacity = new_capacity, !.size = 0, !.deleted_count = 0],
          status |-> HT_ERROR_MEMORY]

\* name##_resize, calloc succeeding when alloc_ok: the table after the call and
\* the status returned.
Resize(t, h, new_capacity, alloc_ok) ==
  IF alloc_ok
    THEN [ht |-> Rehashed(t, h, new_capacity), status |-> HT_SUCCESS]
    ELSE [ht |-> t, status |-> HT_ERROR_MEMORY]

\* The placement loop of resize spins forever (no slot of the new array is free).
ResizeHangs(t, h, new_capacity) == Rehashed(t, h, new_capacity).size = NoIndex

\* --------------------------------------------------------------------- set
\* A load factor that counts the live entries only.
LoadFactorIgnoresDeleted(t) == 4 * t.size > 3 * t.capacity

\* (float)(size + deleted_count) / capacity > 0.75
LoadFactorExceeded(t) == 4 * (t.size + t.deleted_count) > 3 * t.capacity

\* deleted_count > size / 2
\* A tombstone test without the division by two.
TombstonesExceedSize(t) == t.deleted_count > t.size

TombstonesExceeded(t) == t.deleted_count > t.size \div 2

\* The resize trigger of set.
NeedsResize(t) == LoadFactorExceeded(t) \/ TombstonesExceeded(t)

\* A resize target that rehashes in place.
GrowCapacityInPlace(t) == t.capacity

\* The capacity set resizes to.
GrowCapacity(t) == t.capacity * 2

\* A probe that ends at the first Deleted slot, as if it were Empty.
SetProbeStopsAtDeleted(t, key, index, first_deleted, fuel) ==
  LET stop(i) == \/ t.entries[i].state # HT_SLOT_OCCUPIED
                 \/ Compare(t.entries[i].key, key)
      steps == {n \in 0..t.capacity : stop((index + n) % t.capacity)}
      n == IF steps = {} THEN 0 ELSE CHOOSE m \in steps : \A o \in steps : m <= o
      at == (index + n) % t.capacity
  IN  IF steps = {}
        THEN [found |-> FALSE, index |-> NoIndex, first_deleted |-> NoIndex]
        ELSE [found |-> t.entries[at].state = HT_SLOT_OCCUPIED, index |-> at,
              first_deleted |-> IF t.entries[at].state = HT_SLOT_DELETED
                                  THEN at ELSE NoIndex]

\* The probe loop of set from slot index on: found (an Occupied slot with an equal
\* key, at index), or not found (index is the terminating Empty slot), with the
\* first Deleted slot passed on the way; index NoIndex when the loop never ends.
RECURSIVE SetProbeFrom(_, _, _, _, _)
SetProbeFrom(t, key, index, first_deleted, fuel) ==
  IF t.entries[index].state = HT_SLOT_EMPTY
    THEN [found |-> FALSE, index |-> index, first_deleted |-> first_deleted]
  ELSE IF t.entries[index].state = HT_SLOT_OCCUPIED /\ Compare(t.entries[index].key, key)
    THEN [found |-> TRUE, index |-> index, first_deleted |-> first_deleted]
  ELSE IF fuel = 0
    THEN [found |-> FALSE, index |-> NoIndex, first_deleted |-> first_deleted]
  ELSE SetProbeFrom(t, key, (index + 1) % t.capacity,
                    IF t.entries[index].state = HT_SLOT_DELETED /\ first_deleted = NoIndex
                      THEN index ELSE first_deleted,
                    fuel - 1)

\* A probe that starts from the index computed for the capacity before a resize.
SetProbeStaleIndex(t, h, key) ==
  SetProbeFrom(t, key, HashOf(h, key) % InitialCapacity, NoIndex, t.capacity)

SetProbe(t, h, key) ==
  SetProbeFrom(t, key, HashOf(h, key) % t.capacity, NoIndex, t.capacity)

\* An insertion that always appends at the Empty slot that ended the probe.
InsertIndexAppends(p) == p.index

\* The slot an insertion writes: the first Deleted slot of the path if any.
InsertIndex(p) == IF p.first_deleted # NoIndex THEN p.first_deleted ELSE p.index

\* An insertion that forgets to count the tombstone it reclaims.
InsertDeletedCountKeeps(t, p) == t.deleted_count

\* deleted_count after an insertion at the probe result p.
InsertDeletedCount(t, p) ==
  IF p.first_deleted # NoIndex THEN t.deleted_count - 1 ELSE t.deleted_count

\* A store whose update path counts the key again.
SetStoreUpdateCounts(t, key, value, p) ==
  IF p.found
    THEN [t EXCEPT !.entries[p.index].value = value,
                   !.size = @ + 1]
    ELSE [t EXCEPT !.entries[InsertIndex(p)] =
                       [key |-> key, value |-> value, state |-> HT_SLOT_OCCUPIED],
                   !.deleted_count = InsertDeletedCount(t, p),
                   !.size = @ + 1]

\* What set writes after its probe returned p: the value of the found slot, or a
\* new Occupied slot.
SetStore(t, key, value, p) ==
  IF p.found
    THEN [t EXCEPT !.entries[p.index].value = value]
    ELSE [t EXCEPT !.entries[InsertIndex(p)] =
                       [key |-> key, value |-> value, state |-> HT_SLOT_OCCUPIED],
                   !.deleted_count = InsertDeletedCount(t, p),
                   !.size = @ + 1]

\* A set that looks the key up first and evaluates the resize trigger only when
\* it is about to insert.
SetOpUpdateSkipsResize(t, h, key, value, alloc_ok) ==
  IF SetProbe(t, h, key).found
    THEN [ht |-> SetStore(t, key, value, SetProbe(t, h, key)),
          ret |-> HT_SUCCESS, resized |-> FALSE, found |-> TRUE]
  ELSE IF NeedsResize(t)
    THEN LET rs == Resize(t, h, GrowCapacity(t), alloc_ok)
         IN  IF rs.status # HT_SUCCESS
               THEN [ht |-> rs.ht, ret |-> HT_ERROR_MEMORY, resized |-> FALSE,
                     found |-> FALSE]
               ELSE [ht |-> SetStore(rs.ht, key, value, SetProbe(rs.ht, h, key)),
                     ret |-> HT_SUCCESS, resized |-> TRUE, found |-> FALSE]
    ELSE [ht |-> SetStore(t, key, value, SetProbe(t, h, key)),
          ret |-> HT_SUCCESS, resized |-> FALSE, found |-> FALSE]

\* name##_set, calloc succeeding when alloc_ok: the table after the call, its
\* return value, whether it resized and whether it found the key.
SetOp(t, h, key, value, alloc_ok) ==
  IF NeedsResize(t)
    THEN LET rs == Resize(t, h, GrowCapacity(t), alloc_ok)
         IN  IF rs.status # HT_SUCCESS
               THEN [ht |-> rs.ht, ret |-> HT_ERROR_MEMORY, resized |-> FALSE,
                     found |-> FALSE]
               ELSE LET p == SetProbe(rs.ht, h, key)
                    IN  [ht |-> SetStore(rs.ht, key, value, p),
                         ret |-> HT_SUCCESS, resized |-> TRUE, found |-> p.found]
    ELSE LET p == SetProbe(t, h, key)
         IN  [ht |-> SetStore(t, key, value, p),
              ret |-> HT_SUCCESS, resized |-> FALSE, found |-> p.found]

\* set never returns: a resize or probe loop that does not end.
SetHangs(t, h, key, alloc_ok) ==
  IF NeedsResize(t)
    THEN /\ alloc_ok
         /\ \/ ResizeHangs(t, h, GrowCapacity(t))
            \/ SetProbe(Rehashed(t, h, GrowCapacity(t)), h, key).index = NoIndex
    ELSE SetProbe(t, h, key).index = NoIndex

\* --------------------------------------------------------------------- get
\* A lookup that takes a Deleted slot for the end of the path.
FindStopsAtDeleted(t, key, index, fuel) ==
  LET stop(i) == \/ t.entries[i].state # HT_SLOT_OCCUPIED
                 \/ Compare(t.entries[i].key, key)
      steps == {n \in 0..t.capacity : stop((index + n) % t.capacity)}
      n == IF steps = {} THEN 0 ELSE CHOOSE m \in steps : \A o \in steps : m <= o
      at == (index + n) % t.capacity
  IN  IF steps = {} THEN NoIndex
      ELSE IF t.entries[at].state = HT_SLOT_OCCUPIED THEN at
      ELSE NoIndex - 1

\* The probe loop shared by get and delete: the index of the Occupied slot holding
\* key, NoIndex - 1 when an Empty slot ends the path, NoIndex when the loop never ends.
NotFound == NoIndex - 1

RECURSIVE FindFrom(_, _, _, _)
FindFrom(t, key, index, fuel) ==
  IF t.entries[index].state = HT_SLOT_EMPTY THEN NotFound
  ELSE IF t.entries[index].state = HT_SLOT_OCCUPIED /\ Compare(t.entries[index].key, key)
    THEN index
  ELSE IF fuel = 0 THEN NoIndex
  ELSE FindFrom(t, key, (index + 1) % t.capacity, fuel - 1)

Find(t, h, key) == FindFrom(t, key, HashOf(h, key) % t.capacity, t.capacity)

\* name##_get without a value_copy: the stored value, or (value_type)0.
GetOp(t, h, key) ==
  LET index == Find(t, h, key)
  IN  IF index >= 0 THEN t.entries[index].value ELSE 0

\* ------------------------------------------------------------------ delete
\* A delete that empties the slot instead of leaving a tombstone.
DeleteMarkEmpty(t, index) ==
  [t EXCEPT !.entries[index] = DeadEntry(HT_SLOT_EMPTY),
            !.size = @ - 1]

\* What delete writes on a hit at slot index.
DeleteMark(t, index) ==
  [t EXCEPT !.entries[index] = DeadEntry(HT_SLOT_DELETED),
            !.size = @ - 1,
            !.deleted_count = @ + 1]

\* A delete that counts a tombstone on a miss too.
DeleteOpCountsMiss(t, h, key) ==
  LET index == Find(t, h, key)
  IN  IF index >= 0
        THEN [ht |-> DeleteMark(t, index), ret |-> 1]
        ELSE [ht |-> [t EXCEPT !.deleted_count = @ + 1], ret |-> 0]

\* name##_delete: the table after the call and its return value.
DeleteOp(t, h, key) ==
  LET index == Find(t, h, key)
  IN  IF index >= 0
        THEN [ht |-> DeleteMark(t, index), ret |-> 1]
        ELSE [ht |-> t, ret |-> 0]

\* ------------------------------------------------------------------- clear
\* A clear that resets the Occupied slots only and leaves the tombstones.
ClearOpKeepsTombstones(t) ==
  [t EXCEPT !.entries = [i \in 0..(t.capacity - 1) |->
                           IF t.entries[i].state = HT_SLOT_OCCUPIED
                             THEN DeadEntry(HT_SLOT_EMPTY)
                             ELSE t.entries[i]],
            !.size = 0]

\* name##_clear: every slot Empty, counters zero.
ClearOp(t) ==
  [t EXCEPT !.entries = [i \in 0..(t.capacity - 1) |-> DeadEntry(HT_SLOT_EMPTY)],
            !.size = 0,
            !.deleted_count = 0]

\* ----------------------------------------------------------------- reserve
\* The capacity reserve resizes to.
ReserveCapacity(t, cap) ==
  IF cap < t.size + t.deleted_count THEN t.size + t.deleted_count ELSE cap

\* A reserve without the test that makes a request below the capacity a no-op.
ReserveOpAlwaysResizes(t, h, cap, alloc_ok) ==
  LET rs == Resize(t, h, ReserveCapacity(t, cap), alloc_ok)
  IN  [ht |-> rs.ht, ret |-> rs.status, resized |-> rs.status = HT_SUCCESS]

\* name##_reserve, calloc succeeding when alloc_ok.
ReserveOp(t, h, cap, alloc_ok) ==
  IF cap <= t.capacity
    THEN [ht |-> t, ret |-> HT_SUCCESS, resized |-> FALSE]
  ELSE LET rs == Resize(t, h, ReserveCapacity(t, cap), alloc_ok)
       IN  [ht |-> rs.ht, ret |-> rs.status, resized |-> rs.status = HT_SUCCESS]

ReserveHangs(t, h, cap, alloc_ok) ==
  cap > t.capacity /\ alloc_ok /\ ResizeHangs(t, h, ReserveCapacity(t, cap))

\* -------------------------------------------------------------------- lock
\* pthread_rwlock_t: at most one writer, or any number of readers.
Unlocked == [writer |-> 0, readers |-> {}]

\* A write lock that does not wait for the writer inside.
CanWrLockIgnoresWriter(l) == l.readers = {}

CanWrLock(l) == l.writer = 0 /\ l.readers = {}

\* A read lock that does not wait for the writer inside.
CanRdLockIgnoresWriter(l) == TRUE

CanRdLock(l) == l.writer = 0

\* pthread_rwlock_wrlock / pthread_rwlock_rdlock once granted to thread t.
WrLock(l, t) == [l EXCEPT !.writer = t]

RdLock(l, t) == [l EXCEPT !.readers = @ \cup {t}]

\* pthread_rwlock_unlock by thread t.
Unlock(l, t) ==
  IF l.writer = t THEN [l EXCEPT !.writer = 0] ELSE [l EXCEPT !.readers = @ \ {t}]

\* The lock after a whole call of thread t that takes it for writing (reading)
\* and releases it on its return path.
WriteCallLock(l, t) == Unlock(WrLock(l, t), t)

ReadCallLock(l, t) == Unlock(RdLock(l, t), t)

\* --------------------------------------------------------- hash functions
\* collision_hash of the tests: every key starts probing at the same slot.
CollisionHash == [k \in AllKeys |-> 1]

\* A hash whose keys all start at the last slot of a 16-slot table (the probe
\* wraps around) and spread over a larger one.
WrapHash == [k \in AllKeys |-> 16 * k - 1]

\* A hash without collisions at the capacities of the model.
SpreadHash == [k \in AllKeys |-> k]

\* ------------------------------------------------------------ whole calls
NoCall == [op |-> "none", ret |-> 0, resized |-> FALSE]

NoArg == [key |-> 0, value |-> 0, resized |-> FALSE]

NoProbe == [found |-> FALSE, index |-> NoIndex, first_deleted |-> NoIndex]

SetTable(t) ==
  /\ entries' = t.entries
  /\ capacity' = t.capacity
  /\ size' = t.size
  /\ deleted_count' = t.deleted_count

\* ht = create(hash, compare, ...): capacity 16, all slots Empty.
InitTable ==
  /\ entries = Calloc(InitialCapacity)
  /\ capacity = InitialCapacity
  /\ size = 0
  /\ deleted_count = 0
  /\ rwlock = Unlocked
  /\ alive = "live"
  /\ heap = {"ht", "entries"}
  /\ last = NoCall
  /\ amap = [k \in AllKeys |-> 0]
  /\ pc = [t \in Threads |-> "idle"]
  /\ arg = [t \in Threads |-> NoArg]
  /\ probe = [t \in Threads |-> NoProbe]
  /\ iter = [t \in Threads |-> NoIndex]
  /\ yielded = [t \in Threads |-> <<>>]
  /\ owned = NoneFreed
  /\ freed = NoneFreed

\* The table variables while there is no table.
NoTable == [entries |-> Calloc(0), capacity |-> 0, size |-> 0, deleted_count |-> 0]

\* A create that returns NULL without freeing the struct when the slot array
\* cannot be allocated.
CreateOpLeaksStruct(struct_ok, entries_ok) ==
  IF ~struct_ok
    THEN [ret |-> 0, heap |-> {}, ht |-> NoTable]
  ELSE IF ~entries_ok
    THEN [ret |-> 0, heap |-> {"ht"}, ht |-> NoTable]
  ELSE [ret |-> 1, heap |-> {"ht", "entries"},
        ht |-> [entries |-> Calloc(InitialCapacity), capacity |-> InitialCapacity,
                size |-> 0, deleted_count |-> 0]]

\* name##_create: whether it returns a table (1) or NULL (0), the blocks it
\* leaves allocated and the table; struct_ok and entries_ok: the calloc of the
\* struct and the calloc of the slot array succeed.
CreateOp(struct_ok, entries_ok) ==
  IF ~struct_ok
    THEN [ret |-> 0, heap |-> {}, ht |-> NoTable]
  ELSE IF ~entries_ok
    THEN [ret |-> 0, heap |-> {"ht"} \ {"ht"}, ht |-> NoTable]
  ELSE [ret |-> 1, heap |-> {"ht", "entries"},
        ht |-> [entries |-> Calloc(InitialCapacity), capacity |-> InitialCapacity,
                size |-> 0, deleted_count |-> 0]]

\* create by thread t, while there is no table.
Create(t, struct_ok, entries_ok) ==
  /\ alive = "none" /\ pc[t] = "idle"
  /\ \E r \in {CreateOp(struct_ok, entries_ok)} :
       /\ SetTable(r.ht)
       /\ heap' = r.heap
       /\ alive' = IF r.ret = 1 THEN "live" ELSE "none"
       /\ last' = [op |-> "create", ret |-> r.ret, resized |-> FALSE]
  /\ rwlock' = Unlocked
  /\ freed' = NoneFreed
  /\ UNCHANGED <<hash, owned, amap, threadvars>>

\* set(ht, key, value) by thread t, from its wrlock to its return; alloc_ok: the
\* calloc of a resize succeeds.
\* max_capacity: the largest slot array the model lets a resize allocate.
SetUpTo(t, key, value, alloc_ok, max_capacity) ==
  /\ alive = "live" /\ pc[t] = "idle"
  /\ CanWrLock(rwlock)
  /\ (NeedsResize(HT) /\ alloc_ok) => GrowCapacity(HT) <= max_capacity
  /\ ~SetHangs(HT, hash, key, alloc_ok)
  /\ \E r \in {SetOp(HT, hash, key, value, alloc_ok)} :
       /\ SetTable(r.ht)
       /\ last' = [op |-> "set", ret |-> r.ret, resized |-> r.resized]
       /\ amap' = IF r.ret = HT_SUCCESS THEN [amap EXCEPT ![key] = value] ELSE amap
       /\ freed' = IF r.ret = HT_SUCCESS THEN SetFrees(r.found) ELSE NoneFreed
       /\ owned' = IF r.ret = HT_SUCCESS
                     THEN Account(owned, SetTakes(r.found), SetFrees(r.found))
                     ELSE owned
  /\ rwlock' = WriteCallLock(rwlock, t)
  /\ UNCHANGED <<hash, alive, heap, threadvars>>

Set(t, key, value, alloc_ok) == SetUpTo(t, key, value, alloc_ok, MaxCapacity)

\* A get that tidies up as it looks up: it turns the tombstones into Empty slots.
GetReclaimsTombstones(t, key) ==
  /\ alive = "live" /\ pc[t] = "idle"
  /\ CanRdLock(rwlock)
  /\ Find(HT, hash, key) # NoIndex
  /\ last' = [op |-> "get", ret |-> GetOp(HT, hash, key), resized |-> FALSE]
  /\ entries' = [i \in 0..(capacity - 1) |->
                   IF entries[i].state = HT_SLOT_DELETED THEN ZeroEntry ELSE entries[i]]
  /\ deleted_count' = 0
  /\ rwlock' = ReadCallLock(rwlock, t)
  /\ freed' = NoneFreed
  /\ UNCHANGED <<capacity, size, hash, owned, amap, alive, heap, threadvars>>

\* get(ht, key) by thread t.
Get(t, key) ==
  /\ alive = "live" /\ pc[t] = "idle"
  /\ CanRdLock(rwlock)
  /\ Find(HT, hash, key) # NoIndex
  /\ last' = [op |-> "get", ret |-> GetOp(HT, hash, key), resized |-> FALSE]
  /\ rwlock' = ReadCallLock(rwlock, t)
  /\ freed' = NoneFreed
  /\ UNCHANGED <<table, hash, owned, amap, alive, heap, threadvars>>

\* delete(ht, key) by thread t.
Delete(t, key) ==
  /\ alive = "live" /\ pc[t] = "idle"
  /\ CanWrLock(rwlock)
  /\ Find(HT, hash, key) # NoIndex
  /\ \E r \in {DeleteOp(HT, hash, key)} :
       /\ SetTable(r.ht)
       /\ last' = [op |-> "delete", ret |-> r.ret, resized |-> FALSE]
       /\ freed' = DeleteFrees(r.ret = 1)
       /\ owned' = Account(owned, NoneFreed, DeleteFrees(r.ret = 1))
  /\ amap' = [amap EXCEPT ![key] = 0]
  /\ rwlock' = WriteCallLock(rwlock, t)
  /\ UNCHANGED <<hash, alive, heap, threadvars>>

\* clear(ht) by thread t.
Clear(t) ==
  /\ alive = "live" /\ pc[t] = "idle"
  /\ CanWrLock(rwlock)
  /\ \E r \in {ClearOp(HT)} : SetTable(r)
  /\ last' = [op |-> "clear", ret |-> 0, resized |-> FALSE]
  /\ amap' = [k \in AllKeys |-> 0]
  /\ rwlock' = WriteCallLock(rwlock, t)
  /\ freed' = ClearFrees(HT)
  /\ owned' = Account(owned, NoneFreed, ClearFrees(HT))
  /\ UNCHANGED <<hash, alive, heap, threadvars>>

\* reserve(ht, cap) by thread t.
Reserve(t, cap, alloc_ok) ==
  /\ alive = "live" /\ pc[t] = "idle"
  /\ CanWrLock(rwlock)
  /\ ~ReserveHangs(HT, hash, cap, alloc_ok)
  /\ \E r \in {ReserveOp(HT, hash, cap, alloc_ok)} :
       /\ SetTable(r.ht)
       /\ last' = [op |-> "reserve", ret |-> r.ret, resized |-> r.resized]
  /\ rwlock' = WriteCallLock(rwlock, t)
  /\ freed' = NoneFreed
  /\ UNCHANGED <<hash, owned, amap, alive, heap, threadvars>>

\* ------------------------------------------------------------- iteration
\* The loop of name##_iter_next from slot index on: the Occupied slot it stops
\* at, or where it runs off the end.
RECURSIVE IterScan(_, _)
IterScan(t, index) ==
  IF index >= t.capacity THEN index
  ELSE IF t.entries[index].state = HT_SLOT_OCCUPIED THEN index
  ELSE IterScan(t, index + 1)

\* An iter_next that leaves the cursor on the slot it has yielded.
IterNextOpStays(t, index) ==
  LET at == IterScan(t, index)
  IN  IF at < t.capacity
        THEN [index |-> at, ret |-> 1, key |-> t.entries[at].key,
              value |-> t.entries[at].value]
        ELSE [index |-> at, ret |-> 0, key |-> 0, value |-> 0]

\* name##_iter_next: the iterator's index after the call, the return value and
\* the pair yielded.
IterNextOp(t, index) ==
  LET at == IterScan(t, index)
  IN  IF at < t.capacity
        THEN [index |-> at + 1, ret |-> 1, key |-> t.entries[at].key,
              value |-> t.entries[at].value]
        ELSE [index |-> at, ret |-> 0, key |-> 0, value |-> 0]

\* An iter_create that takes the read lock as get does.
IterCreateRdLocks(t) ==
  /\ alive = "live" /\ pc[t] = "idle"
  /\ rwlock.writer = 0
  /\ rwlock' = [rwlock EXCEPT !.readers = @ \cup {t}]
  /\ iter' = [iter EXCEPT ![t] = 0]
  /\ yielded' = [yielded EXCEPT ![t] = <<>>]
  /\ last' = [op |-> "iter_create", ret |-> 0, resized |-> FALSE]
  /\ freed' = NoneFreed
  /\ UNCHANGED <<table, hash, owned, alive, heap, amap, pc, arg, probe>>

\* name##_iter_create by thread t: the cursor at slot 0. It takes no lock.
IterCreate(t) ==
  /\ alive = "live" /\ pc[t] = "idle"
  /\ iter' = [iter EXCEPT ![t] = 0]
  /\ yielded' = [yielded EXCEPT ![t] = <<>>]
  /\ last' = [op |-> "iter_create", ret |-> 0, resized |-> FALSE]
  /\ freed' = NoneFreed
  /\ UNCHANGED <<table, hash, owned, rwlock, alive, heap, amap, pc, arg, probe>>

\* name##_iter_next by thread t. It takes no lock; its caller keeps it away from
\* a writer's critical section.
IterNext(t) ==
  /\ alive = "live" /\ pc[t] = "idle"
  /\ iter[t] # NoIndex
  /\ rwlock.writer = 0
  /\ \E r \in {IterNextOp(HT, iter[t])} :
       /\ iter' = [iter EXCEPT ![t] = r.index]
       /\ yielded' = [yielded EXCEPT ![t] = IF r.ret = 1 THEN Append(@, <<r.key, r.value>>) ELSE @]
       /\ last' = [op |-> "iter_next", ret |-> r.ret, resized |-> FALSE]
  /\ freed' = NoneFreed
  /\ UNCHANGED <<table, hash, owned, rwlock, alive, heap, amap, pc, arg, probe>>

\* ------------------------------------------------- calls, step by step
\* Thread t enters a call and reaches its pthread_rwlock_wrlock / rdlock.
Call(t, at, key, value) ==
  /\ alive = "live" /\ pc[t] = "idle"
  /\ pc' = [pc EXCEPT ![t] = at]
  /\ arg' = [arg EXCEPT ![t] = [key |-> key, value |-> value, resized |-> FALSE]]
  /\ freed' = NoneFreed
  /\ UNCHANGED <<table, hash, owned, rwlock, alive, heap, last, amap, probe, iter, yielded>>

\* The lock is granted to thread t, waiting at pc `at`, for writing.
AcquireWrite(t, at, next) ==
  /\ alive = "live"
  /\ pc[t] = at
  /\ CanWrLock(rwlock)
  /\ rwlock' = WrLock(rwlock, t)
  /\ pc' = [pc EXCEPT ![t] = next]
  /\ freed' = NoneFreed
  /\ UNCHANGED <<table, hash, owned, alive, heap, last, amap, arg, probe, iter, yielded>>

\* The lock is granted to thread t, waiting at pc `at`, for reading.
AcquireRead(t, at, next) ==
  /\ alive = "live"
  /\ pc[t] = at
  /\ CanRdLock(rwlock)
  /\ rwlock' = RdLock(rwlock, t)
  /\ pc' = [pc EXCEPT ![t] = next]
  /\ freed' = NoneFreed
  /\ UNCHANGED <<table, hash, owned, alive, heap, last, amap, arg, probe, iter, yielded>>

\* Thread t moves on inside its call.
Goto(t, next) == pc' = [pc EXCEPT ![t] = next]

\* pthread_rwlock_unlock and return of thread t from call op.
UnlockReturn(t, op, ret) ==
  /\ rwlock' = Unlock(rwlock, t)
  /\ last' = [op |-> op, ret |-> ret, resized |-> arg[t].resized]
  /\ pc' = [pc EXCEPT ![t] = "idle"]
  /\ arg' = [arg EXCEPT ![t] = NoArg]
  /\ probe' = [probe EXCEPT ![t] = NoProbe]

\* set: the call, the lock, the resize trigger, the probe loop, the store.
SetCall(t, key, value) == Call(t, "set_wrlock", key, value)

SetLock(t) == AcquireWrite(t, "set_wrlock", "set_resize")

\* A set that returns HT_ERROR_MEMORY from a failed resize without unlocking.
SetResizeFailureKeepsLock(t, alloc_ok) ==
  /\ pc[t] = "set_resize"
  /\ IF NeedsResize(HT)
       THEN /\ alloc_ok => (GrowCapacity(HT) <= MaxCapacity
                            /\ ~ResizeHangs(HT, hash, GrowCapacity(HT)))
            /\ \E rs \in {Resize(HT, hash, GrowCapacity(HT), alloc_ok)} :
                 /\ SetTable(rs.ht)
                 /\ IF rs.status # HT_SUCCESS
                      THEN /\ last' = [op |-> "set", ret |-> HT_ERROR_MEMORY,
                                        resized |-> arg[t].resized]
                           /\ pc' = [pc EXCEPT ![t] = "idle"]
                           /\ arg' = [arg EXCEPT ![t] = NoArg]
                           /\ probe' = [probe EXCEPT ![t] = NoProbe]
                           /\ UNCHANGED <<rwlock, amap>>
                      ELSE /\ Goto(t, "set_probe")
                           /\ arg' = [arg EXCEPT ![t].resized = TRUE]
                           /\ amap' = [amap EXCEPT ![arg[t].key] = arg[t].value]
                           /\ UNCHANGED <<rwlock, last, probe>>
       ELSE /\ Goto(t, "set_probe")
            /\ amap' = [amap EXCEPT ![arg[t].key] = arg[t].value]
            /\ UNCHANGED <<table, rwlock, last, arg, probe>>
  /\ freed' = NoneFreed
  /\ UNCHANGED <<hash, owned, alive, heap, iter, yielded>>

SetResize(t, alloc_ok) ==
  /\ pc[t] = "set_resize"
  /\ IF NeedsResize(HT)
       THEN /\ alloc_ok => (GrowCapacity(HT) <= MaxCapacity
                            /\ ~ResizeHangs(HT, hash, GrowCapacity(HT)))
            /\ \E rs \in {Resize(HT, hash, GrowCapacity(HT), alloc_ok)} :
                 /\ SetTable(rs.ht)
                 /\ IF rs.status # HT_SUCCESS
                      THEN /\ UnlockReturn(t, "set", HT_ERROR_MEMORY)
                           /\ UNCHANGED amap
                      ELSE /\ Goto(t, "set_probe")
                           /\ arg' = [arg EXCEPT ![t].resized = TRUE]
                           /\ amap' = [amap EXCEPT ![arg[t].key] = arg[t].value]
                           /\ UNCHANGED <<rwlock, last, probe>>
       ELSE /\ Goto(t, "set_probe")
            /\ amap' = [amap EXCEPT ![arg[t].key] = arg[t].value]
            /\ UNCHANGED <<table, rwlock, last, arg, probe>>
  /\ freed' = NoneFreed
  /\ UNCHANGED <<hash, owned, alive, heap, iter, yielded>>

SetProbeStep(t) ==
  /\ pc[t] = "set_probe"
  /\ \E p \in {SetProbe(HT, hash, arg[t].key)} :
       /\ p.index # NoIndex
       /\ probe' = [probe EXCEPT ![t] = p]
  /\ Goto(t, "set_store")
  /\ freed' = NoneFreed
  /\ UNCHANGED <<table, hash, owned, rwlock, alive, heap, last, amap, arg, iter, yielded>>

SetStoreStep(t) ==
  /\ pc[t] = "set_store"
  /\ \E r \in {SetStore(HT, arg[t].key, arg[t].value, probe[t])} : SetTable(r)
  /\ UnlockReturn(t, "set", HT_SUCCESS)
  /\ freed' = SetFrees(probe[t].found)
  /\ owned' = Account(owned, SetTakes(probe[t].found), SetFrees(probe[t].found))
  /\ UNCHANGED <<hash, alive, heap, amap, iter, yielded>>

\* get: the call, the lock, the probe loop and the return.
GetCall(t, key) == Call(t, "get_rdlock", key, 0)

GetLock(t) == AcquireRead(t, "get_rdlock", "get_probe")

\* A probe loop of get that releases the read lock as soon as it has found the
\* slot, before the value is copied.
GetProbeStepUnlocksEarly(t) ==
  /\ pc[t] = "get_probe"
  /\ \E index \in {Find(HT, hash, arg[t].key)} :
       /\ index # NoIndex
       /\ IF index >= 0
            THEN /\ Goto(t, "get_copy")
                 /\ probe' = [probe EXCEPT ![t] = [NoProbe EXCEPT !.found = TRUE,
                                                                 !.index = index]]
                 /\ rwlock' = Unlock(rwlock, t)
                 /\ UNCHANGED <<last, arg>>
            ELSE UnlockReturn(t, "get", 0)
  /\ freed' = NoneFreed
  /\ UNCHANGED <<table, hash, owned, alive, heap, amap, iter, yielded>>

\* The probe loop of get: it ends at the Occupied slot that holds the key, or at
\* an Empty slot, and then get unlocks and returns (value_type)0.
GetProbeStep(t) ==
  /\ pc[t] = "get_probe"
  /\ \E index \in {Find(HT, hash, arg[t].key)} :
       /\ index # NoIndex
       /\ IF index >= 0
            THEN /\ Goto(t, "get_copy")
                 /\ probe' = [probe EXCEPT ![t] = [NoProbe EXCEPT !.found = TRUE,
                                                                 !.index = index]]
                 /\ UNCHANGED <<rwlock, last, arg>>
            ELSE UnlockReturn(t, "get", 0)
  /\ freed' = NoneFreed
  /\ UNCHANGED <<table, hash, owned, alive, heap, amap, iter, yielded>>

\* ht->value_copy(value, user_data): the content of the clone, which is the
\* content of the value it reads.
ValueCopy(value) == value

\* The hit of get: val = value_copy(entries[index].value), unlock, return val.
GetCopyStep(t) ==
  /\ pc[t] = "get_copy"
  /\ UnlockReturn(t, "get", ValueCopy(entries[probe[t].index].value))
  /\ freed' = NoneFreed
  /\ UNCHANGED <<table, hash, owned, alive, heap, amap, iter, yielded>>

\* delete: the call, the lock, the probe loop, the mark.
DeleteCall(t, key) == Call(t, "delete_wrlock", key, 0)

DeleteLock(t) == AcquireWrite(t, "delete_wrlock", "delete_probe")

DeleteProbeStep(t) ==
  /\ pc[t] = "delete_probe"
  /\ \E index \in {Find(HT, hash, arg[t].key)} :
       /\ index # NoIndex
       /\ IF index >= 0
            THEN /\ Goto(t, "delete_mark")
                 /\ probe' = [probe EXCEPT ![t] = [NoProbe EXCEPT !.found = TRUE,
                                                                 !.index = index]]
                 /\ UNCHANGED <<rwlock, last, arg>>
            ELSE UnlockReturn(t, "delete", 0)
  /\ amap' = [amap EXCEPT ![arg[t].key] = 0]
  /\ freed' = NoneFreed
  /\ UNCHANGED <<table, hash, owned, alive, heap, iter, yielded>>

DeleteMarkStep(t) ==
  /\ pc[t] = "delete_mark"
  /\ \E r \in {DeleteMark(HT, probe[t].index)} : SetTable(r)
  /\ UnlockReturn(t, "delete", 1)
  /\ freed' = DeleteFrees(TRUE)
  /\ owned' = Account(owned, NoneFreed, DeleteFrees(TRUE))
  /\ UNCHANGED <<hash, alive, heap, amap, iter, yielded>>

\* clear: the call, the lock, the body.
ClearCall(t) == Call(t, "clear_wrlock", 0, 0)

ClearLock(t) == AcquireWrite(t, "clear_wrlock", "clear_body")

ClearStep(t) ==
  /\ pc[t] = "clear_body"
  /\ \E r \in {ClearOp(HT)} : SetTable(r)
  /\ amap' = [k \in AllKeys |-> 0]
  /\ UnlockReturn(t, "clear", 0)
  /\ freed' = ClearFrees(HT)
  /\ owned' = Account(owned, NoneFreed, ClearFrees(HT))
  /\ UNCHANGED <<hash, alive, heap, iter, yielded>>

\* reserve: the call, the lock, the body.
ReserveCall(t, cap) == Call(t, "reserve_wrlock", 0, cap)

ReserveLock(t) == AcquireWrite(t, "reserve_wrlock", "reserve_body")

ReserveBodyStep(t, alloc_ok) ==
  /\ pc[t] = "reserve_body"
  /\ ~ReserveHangs(HT, hash, arg[t].value, alloc_ok)
  /\ \E r \in {ReserveOp(HT, hash, arg[t].value, alloc_ok)} :
       /\ SetTable(r.ht)
       /\ rwlock' = Unlock(rwlock, t)
       /\ last' = [op |-> "reserve", ret |-> r.ret, resized |-> r.resized]
  /\ pc' = [pc EXCEPT ![t] = "idle"]
  /\ arg' = [arg EXCEPT ![t] = NoArg]
  /\ freed' = NoneFreed
  /\ UNCHANGED <<hash, owned, alive, heap, amap, probe, iter, yielded>>

\* destroy: the call, the lock, the destructor loop and free(ht->entries), the unlock, then
\* pthread_rwlock_destroy and free(ht).
DestroyCall(t) == Call(t, "destroy_wrlock", 0, 0)

DestroyLock(t) == AcquireWrite(t, "destroy_wrlock", "destroy_body")

\* A destroy that frees the slot array before it runs the destructor loop.
DestroyEntriesFreesFirst(t) ==
  /\ pc[t] = "destroy_body"
  /\ alive' = "objects_freed"
  /\ heap' = heap \ {"entries"}
  /\ Goto(t, "destroy_free")
  /\ freed' = DestroyFrees(HT)
  /\ owned' = Account(owned, NoneFreed, DestroyFrees(HT))
  /\ UNCHANGED <<table, hash, rwlock, last, amap, arg, probe, iter, yielded>>

\* destroy: the destructor loop over the Occupied slots.
DestroyEntries(t) ==
  /\ pc[t] = "destroy_body"
  /\ alive' = "objects_freed"
  /\ Goto(t, "destroy_free")
  /\ freed' = DestroyFrees(HT)
  /\ owned' = Account(owned, NoneFreed, DestroyFrees(HT))
  /\ UNCHANGED <<table, hash, rwlock, heap, last, amap, arg, probe, iter, yielded>>

\* destroy: free(ht->entries).
DestroyFree(t) ==
  /\ pc[t] = "destroy_free"
  /\ alive' = "entries_freed"
  /\ heap' = heap \ {"entries"}
  /\ Goto(t, "destroy_unlock")
  /\ freed' = NoneFreed
  /\ UNCHANGED <<table, hash, owned, rwlock, last, amap, arg, probe, iter, yielded>>

\* destroy: pthread_rwlock_unlock.
DestroyUnlock(t) ==
  /\ pc[t] = "destroy_unlock"
  /\ rwlock' = Unlock(rwlock, t)
  /\ Goto(t, "destroy_finish")
  /\ freed' = NoneFreed
  /\ UNCHANGED <<table, hash, owned, alive, heap, last, amap, arg, probe, iter, yielded>>

\* destroy: pthread_rwlock_destroy.
DestroyRwlock(t) ==
  /\ pc[t] = "destroy_finish"
  /\ alive' = "lock_destroyed"
  /\ Goto(t, "destroy_free_ht")
  /\ freed' = NoneFreed
  /\ UNCHANGED <<table, hash, owned, rwlock, heap, last, amap, arg, probe, iter, yielded>>

\* destroy: free(ht) and the return.
DestroyFinish(t) ==
  /\ pc[t] = "destroy_free_ht"
  /\ alive' = "destroyed"
  /\ heap' = heap \ {"ht"}
  /\ last' = [op |-> "destroy", ret |-> 0, resized |-> FALSE]
  /\ pc' = [pc EXCEPT ![t] = "idle"]
  /\ arg' = [arg EXCEPT ![t] = NoArg]
  /\ freed' = NoneFreed
  /\ UNCHANGED <<table, hash, owned, rwlock, amap, probe, iter, yielded>>

\* The capacities the callers of the model ask reserve for: below the current
\* one, a step above it, and the largest of the model.
ReserveRequests == {c \in {InitialCapacity \div 2, capacity + ReserveStep, MaxCapacity} :
                      c <= MaxCapacity}

\* One caller, two values; the keys collide and wrap, or do not collide.
Init ==
  /\ InitTable
  /\ hash \in {WrapHash, SpreadHash}

Next ==
  \/ \E k \in Keys, v \in Values, ok \in BOOLEAN : Set(MainThread, k, v, ok)
  \/ \E k \in Keys : Get(MainThread, k)
  \/ \E k \in Keys : Delete(MainThread, k)
  \/ Clear(MainThread)
  \/ \E c \in ReserveRequests, ok \in BOOLEAN : Reserve(MainThread, c, ok)

Spec == Init /\ [][Next]_vars

\* One caller filling the table up to the load-factor trigger, as the insertion
\* loops of the tests and of the benchmark do: keys without collisions, set in
\* ascending order (a key is set once its predecessor is in the table) or set
\* again, one value, memory always available; deletes of the first keys; reserve
\* one step up.
InitFill ==
  /\ InitTable
  /\ hash = SpreadHash

FillOrder(k) == IF k <= 2 THEN TRUE ELSE amap[k - 1] # 0

NextFill ==
  \/ \E k \in FillKeySet : FillOrder(k) /\ Set(MainThread, k, 1, TRUE)
  \/ \E k \in Keys : Delete(MainThread, k)
  \/ \E c \in {capacity + ReserveStep} : c <= MaxCapacity /\ Reserve(MainThread, c, TRUE)

SpecFill == InitFill /\ [][NextFill]_vars

\* The pcs at which a thread waits for the lock.
LockWaits ==
  {"set_wrlock", "get_rdlock", "delete_wrlock", "clear_wrlock",
   "reserve_wrlock", "destroy_wrlock"}

\* A thread that waited for the lock while destroy ran gets past destroy's
\* unlock: it locks and reads memory destroy has freed, or is about to. The
\* behaviour is undefined from here on, and the model stops.
UseAfterDestroy(t) ==
  /\ pc[t] \in LockWaits
  /\ alive \in {"entries_freed", "lock_destroyed", "destroyed"}
  /\ rwlock.writer = 0
  /\ alive' = "use_after_free"
  /\ UNCHANGED heap
  /\ freed' = NoneFreed
  /\ UNCHANGED <<table, hash, owned, rwlock, last, amap, threadvars>>

\* Threads calling concurrently, each passing its own id as the value; keys that
\* collide.
ThreadStep(t) ==
  \/ SetLock(t)
  \/ \E ok \in BOOLEAN : SetResize(t, ok)
  \/ SetProbeStep(t)
  \/ SetStoreStep(t)
  \/ GetLock(t)
  \/ GetProbeStep(t)
  \/ GetCopyStep(t)
  \/ DeleteLock(t)
  \/ DeleteProbeStep(t)
  \/ DeleteMarkStep(t)
  \/ ClearLock(t)
  \/ ClearStep(t)
  \/ ReserveLock(t)
  \/ \E ok \in BOOLEAN : ReserveBodyStep(t, ok)
  \/ DestroyLock(t)
  \/ DestroyEntries(t)
  \/ DestroyFree(t)
  \/ DestroyUnlock(t)
  \/ DestroyRwlock(t)
  \/ DestroyFinish(t)
  \/ UseAfterDestroy(t)

InitConc ==
  /\ InitTable
  /\ hash = WrapHash

NextConc ==
  \E t \in Threads :
    \/ \E k \in ConcKeys : SetCall(t, k, t)
    \/ \E k \in ConcKeys : GetCall(t, k)
    \/ \E k \in ConcKeys : DeleteCall(t, k)
    \/ ClearCall(t)
    \/ ReserveCall(t, MaxCapacity)
    \/ DestroyCall(t)
    \/ IterCreate(t)
    \/ ThreadStep(t)

SpecConc == InitConc /\ [][NextConc]_vars

\* The threads of test_thread_safety: each sets its own keys in turn, and gets
\* each back straight after setting it. The keys collide.
OwnKeys(t) == {k \in FillKeySet : (k - 1) % NThreads = t - 1}

OwnNext(t, k) ==
  /\ k \in OwnKeys(t)
  /\ amap[k] = 0
  /\ \A j \in OwnKeys(t) : j < k => amap[j] # 0

OwnLast(t, k) ==
  /\ k \in OwnKeys(t)
  /\ amap[k] # 0
  /\ \A j \in OwnKeys(t) : j > k => amap[j] = 0

InitDisjoint ==
  /\ InitTable
  /\ hash = CollisionHash

NextDisjoint ==
  \E t \in Threads :
    \/ \E k \in FillKeySet : OwnNext(t, k) /\ SetCall(t, k, 1)
    \/ SetLock(t)
    \/ SetResize(t, TRUE)
    \/ SetProbeStep(t)
    \/ SetStoreStep(t)
    \/ \E k \in FillKeySet : OwnLast(t, k) /\ GetCall(t, k)
    \/ GetLock(t)
    \/ GetProbeStep(t)
    \/ GetCopyStep(t)

SpecDisjoint == InitDisjoint /\ [][NextDisjoint]_vars

\* ================================================================== claims
\* The slots of table t, and those in a given state.
Slots(t) == 0..(t.capacity - 1)

SlotsIn(t, state) == {i \in Slots(t) : t.entries[i].state = state}

\* The (key, value) pairs held in Occupied slots.
Pairs(t) == {<<t.entries[i].key, t.entries[i].value>> : i \in SlotsIn(t, HT_SLOT_OCCUPIED)}

\* The last call was op and returned ret.
Returned(op, ret) == last.op = op /\ last.ret = ret

\* C1: after any sequence of set and delete (resizes and tombstone reuse
\* included) get(k) returns the value of the most recent set(k, v) that no
\* delete(k) followed, and the absent sentinel 0 otherwise: the table behaves
\* like the abstract key -> value map.
C1_MapRefinement == \A k \in AllKeys : GetOp(HT, hash, k) = amap[k]

\* A resized table with a tombstone, an updated key and a deleted key.
C1_Witness ==
  /\ capacity > InitialCapacity
  /\ deleted_count > 0
  /\ \E k1, k2 \in Keys : amap[k1] = 2 /\ amap[k2] = 0 /\ GetOp(HT, hash, k1) = 2

\* C2: no two Occupied slots hold keys that compare equal.
C2_NoDuplicateKeys ==
  \A i, j \in SlotsIn(HT, HT_SLOT_OCCUPIED) :
    i # j => ~Compare(entries[i].key, entries[j].key)

\* A set returned on a table that holds a tombstone and two live keys.
C2_Witness ==
  /\ Returned("set", HT_SUCCESS)
  /\ Cardinality(SlotsIn(HT, HT_SLOT_OCCUPIED)) >= 2
  /\ SlotsIn(HT, HT_SLOT_DELETED) # {}

\* C3: live_count + tombstone_count <= capacity in every state, hence
\* live_count <= capacity.
C3_CountsWithinCapacity == size + deleted_count <= capacity /\ size <= capacity

\* A table at the load-factor limit of its capacity that holds a tombstone.
C3_Witness ==
  /\ 4 * (size + deleted_count) > 3 * capacity
  /\ deleted_count > 0

\* C4 as stated: right after a set returned HT_SUCCESS,
\* (live_count + tombstone_count) / capacity <= 0.75.
C4_LoadAfterSet ==
  Returned("set", HT_SUCCESS) => 4 * (size + deleted_count) <= 3 * capacity

\* C4 amended: right after a set returned HT_SUCCESS the load factor exceeds 0.75
\* by at most the entry this set inserted:
\* (live_count + tombstone_count - 1) / capacity <= 0.75.
C4_LoadBeforeInsert ==
  Returned("set", HT_SUCCESS) => 4 * (size + deleted_count - 1) <= 3 * capacity

\* A set inserted into a table whose load factor was exactly 0.75.
C4_Witness ==
  /\ Returned("set", HT_SUCCESS)
  /\ ~last.resized
  /\ 4 * (size + deleted_count) > 3 * capacity

\* C5: a successful resize, of set or of reserve, leaves no tombstone
\* (tombstone_count 0, no slot Deleted) and keeps the live entries: after a
\* resizing reserve live_count and the set of (key, value) pairs are those of
\* before; after a resizing set they are those of before with the pair of this
\* set put in.
C5_ResizePreserves ==
  [][last'.resized =>
       /\ deleted_count' = 0
       /\ SlotsIn(HT', HT_SLOT_DELETED) = {}
       /\ size' = Cardinality(SlotsIn(HT', HT_SLOT_OCCUPIED))
       /\ last'.op = "reserve" => (size' = size /\ Pairs(HT') = Pairs(HT))
       /\ last'.op = "set" =>
            \E k \in AllKeys, v \in Values :
              /\ Pairs(HT') = {q \in Pairs(HT) : q[1] # k} \cup {<<k, v>>}
              /\ size' = Cardinality({q[1] : q \in Pairs(HT)} \cup {k})]_vars

\* A set resized because of tombstones, and two keys are live after it.
C5_Witness ==
  /\ Returned("set", HT_SUCCESS)
  /\ last.resized
  /\ size >= 2

\* C6: when the allocation of a resize fails inside set or reserve, the call
\* returns HT_ERROR_MEMORY, the slot array, capacity, live_count and
\* tombstone_count are those of before the call (so the pair passed to set is
\* not stored), and the lock is free again.
C6_AllocFailureAtomic ==
  [][(last'.op \in {"set", "reserve"} /\ last'.ret = HT_ERROR_MEMORY) =>
       /\ UNCHANGED table
       /\ UNCHANGED amap
       /\ rwlock' = Unlocked]_vars

\* A set failed on a table that holds entries and a tombstone.
C6_Witness ==
  /\ Returned("set", HT_ERROR_MEMORY)
  /\ size >= 1
  /\ deleted_count >= 1

\* The pcs of a thread between the grant of the write lock and its unlock, and
\* between the grant of the read lock and its unlock.
InWrite ==
  {"set_resize", "set_probe", "set_store", "delete_probe", "delete_mark",
   "clear_body", "reserve_body", "destroy_body", "destroy_free",
   "destroy_unlock"}

InRead == {"get_probe", "get_copy"}

Quiescent == \A t \in Threads : pc[t] = "idle"

\* C7: threads setting pairwise-disjoint keys concurrently, resizes included,
\* lose no update: whenever every thread is between calls, size is the number of
\* keys set so far and each of them is retrievable with its value; and the get
\* a thread makes right after its set returns that value.
C7_NoLostUpdate ==
  /\ Quiescent =>
       /\ size = Cardinality({k \in FillKeySet : amap[k] # 0})
       /\ \A k \in FillKeySet : GetOp(HT, hash, k) = amap[k]
  /\ last.op = "get" => last.ret = 1

\* All threads have finished their keys, and the table resized on the way.
C7_Witness ==
  /\ Quiescent
  /\ \A k \in FillKeySet : amap[k] # 0
  /\ size = FillKeys
  /\ capacity = 2 * InitialCapacity

\* C8: concurrent sets on one key are linearized by the write lock: whenever no
\* writer is inside its critical section, the table holds at most one entry per
\* key, and the key's value is the one of the last set to have been granted the
\* lock (amap).
C8_LastWriterWins ==
  (alive = "live" /\ \A t \in Threads : pc[t] \notin InWrite) =>
    \A k \in ConcKeys :
      /\ Cardinality({i \in Slots(HT) :
                        /\ entries[i].state = HT_SLOT_OCCUPIED
                        /\ entries[i].key = k})
           = (IF amap[k] # 0 THEN 1 ELSE 0)
      /\ GetOp(HT, hash, k) = amap[k]

\* Thread 2 is about to overwrite the value thread 1 stored for a key while
\* thread 1, setting that key again, waits for the lock.
C8_Witness ==
  /\ pc[2] = "set_store"
  /\ probe[2].found
  /\ entries[probe[2].index].value = 1
  /\ pc[1] = "set_wrlock"
  /\ arg[1].key = arg[2].key

\* C9 as claimed: every writer, destroy included, holds the write lock for its
\* whole body.
C9_WholeBodyLocked ==
  \A t \in Threads :
    pc[t] \in InWrite \cup {"destroy_finish", "destroy_free_ht"} => rwlock.writer = t

\* C9 (amended): set, delete, clear and reserve hold the write lock for their
\* whole body, destroy from its lock to its unlock, get holds the read lock; a
\* writer inside its critical section is there alone, and the slot array, the
\* counts and the capacity change only in a step of the write lock's holder.
C9_LockDiscipline ==
  /\ [](\A t \in Threads :
          /\ pc[t] \in InWrite => rwlock.writer = t
          /\ pc[t] \in InRead => t \in rwlock.readers
          /\ pc[t] \in InWrite =>
               \A u \in Threads \ {t} : pc[u] \notin InWrite \cup InRead)
  /\ [][table' # table =>
          \E t \in Threads :
            /\ pc[t] \in InWrite
            /\ rwlock.writer = t
            /\ pc'[t] # pc[t]]_vars

\* Two gets are inside their critical sections at once.
C9_Witness ==
  /\ pc[1] = "get_probe"
  /\ pc[2] = "get_probe"
  /\ rwlock.readers = {1, 2}

\* C10 as claimed: iter_create acquires read access, so no cursor is created
\* while a writer holds the lock.
C10_IterCreateReadLocks == [][iter' # iter => rwlock.writer = 0]_vars

\* C10 (amended): iter_create takes no lock: creating a cursor leaves the lock
\* and the table as they are, whoever holds the lock, and sets the cursor to
\* slot 0.
C10_IterCreateLockFree ==
  [][iter' # iter =>
       /\ rwlock' = rwlock
       /\ UNCHANGED table
       /\ \E t \in Threads : iter' = [iter EXCEPT ![t] = 0]]_vars

\* A cursor was just created while a writer was inside its critical section.
C10_Witness ==
  /\ last.op = "iter_create"
  /\ \E t \in Threads : iter[t] = 0 /\ pc[t] = "idle"
  /\ \E u \in Threads : pc[u] \in InWrite /\ rwlock.writer = u

\* C11: with destructors configured, every key and every value stored in a slot
\* is passed to its destructor exactly once: while the table lives the objects
\* stored and not yet destroyed are exactly those of the Occupied slots (none is
\* leaked by set, delete, clear or a resize, none is destroyed while stored, a
\* Deleted slot owns nothing), and once destroy has freed the slot array none
\* is left and none was destroyed twice.
C11_DestroyedExactlyOnce ==
  /\ alive = "live" =>
       /\ owned.keys = OccupiedCount(HT)
       /\ owned.values = OccupiedCount(HT)
  /\ alive \in {"entries_freed", "destroyed"} => owned = NoneFreed

\* destroy has run on a table that held entries and a tombstone.
C11_Witness ==
  /\ alive = "destroyed"
  /\ size >= 1
  /\ deleted_count >= 1
  /\ owned = NoneFreed

\* The step ends a set that returned HT_SUCCESS and left k with value v: what a
\* successful Set(t, k, v, ok) step is seen to leave, tested before the step is
\* matched against the action. (A set that succeeds with the allocation failing
\* did not resize, and is the same step with the allocation succeeding.)
SetReturned(k, v) == Returned("set", HT_SUCCESS)' /\ amap'[k] = v

\* What an update of key k to value v by a successful set leaves, but for the
\* tombstone count: get(k) = v, no key stored or destroyed, the old value
\* destroyed once, live_count as before, every other key as before.
UpdateEffect(k, v) ==
  /\ GetOp(HT, hash, k)' = v
  /\ freed' = [keys |-> 0, values |-> 1]
  /\ owned' = owned
  /\ size' = size
  /\ \A j \in Keys \ {k} : GetOp(HT, hash, j)' = GetOp(HT, hash, j)

\* C12 as claimed: a successful set(k, v) on a present key is an update that
\* keeps live_count and tombstone_count.
C12_UpdateKeepsCounts ==
  [][\A k \in Keys, v \in Values :
       (amap[k] # 0 /\ SetReturned(k, v) /\ Set(MainThread, k, v, TRUE)) =>
         /\ UpdateEffect(k, v)
         /\ deleted_count' = deleted_count]_vars

\* C12 (amended): a successful set(k, v) on a present key is an update: get(k)
\* becomes v, the new key is neither stored nor destroyed, the old value is
\* destroyed exactly once, live_count and all other keys keep their values;
\* tombstone_count and the slots other than k's keep theirs unless the set
\* resized on entry, and then tombstone_count is 0.
C12_UpdateInPlace ==
  [][\A k \in Keys, v \in Values :
       (amap[k] # 0 /\ SetReturned(k, v) /\ Set(MainThread, k, v, TRUE)) =>
         /\ UpdateEffect(k, v)
         /\ IF last'.resized
              THEN deleted_count' = 0
              ELSE /\ deleted_count' = deleted_count
                   /\ capacity' = capacity
                   /\ entries' = [entries EXCEPT ![Find(HT, hash, k)].value = v]]_vars

\* set(a, .), set(b, .), then a set of a present key updated it in place.
C12_Witness ==
  /\ Returned("set", HT_SUCCESS)
  /\ ~last.resized
  /\ freed = [keys |-> 0, values |-> 1]
  /\ size >= 2

\* C13: round trip: in every reachable state, a set(k, v) that returns
\* HT_SUCCESS, whether it resized, reused a tombstone, appended or updated,
\* leaves a table in which get(k) returns v.
C13_RoundTrip ==
  [][\A k \in Keys, v \in Values :
       (SetReturned(k, v) /\ Set(MainThread, k, v, TRUE)) =>
         GetOp(HT, hash, k)' = v]_vars

\* A set inserted a new key into a table it had just resized, behind other keys.
C13_Witness ==
  /\ Returned("set", HT_SUCCESS)
  /\ last.resized
  /\ freed = NoneFreed
  /\ size >= 2
  /\ capacity = 2 * InitialCapacity

\* C14: delete(k) on a present key returns 1, turns the slot that holds k, and
\* no other, Deleted, makes live_count one less and tombstone_count one more,
\* leaves capacity and every other slot as they were, and get(k) then returns
\* the absent sentinel.
C14_DeletePresent ==
  [][\A k \in Keys :
       (amap[k] # 0 /\ last'.op = "delete" /\ Delete(MainThread, k)) =>
         /\ last'.ret = 1
         /\ entries[Find(HT, hash, k)].state = HT_SLOT_OCCUPIED
         /\ entries[Find(HT, hash, k)].key = k
         /\ entries'[Find(HT, hash, k)].state = HT_SLOT_DELETED
         /\ \A i \in Slots(HT) \ {Find(HT, hash, k)} : entries'[i] = entries[i]
         /\ size' = size - 1
         /\ deleted_count' = deleted_count + 1
         /\ capacity' = capacity
         /\ GetOp(HT, hash, k)' = 0]_vars

\* A delete hit a key stored next to another live key and an older tombstone.
C14_Witness ==
  /\ Returned("delete", 1)
  /\ size >= 1
  /\ deleted_count >= 2

\* C15: delete(k) on an absent key (never inserted, deleted before, or the table
\* empty) returns 0 and changes nothing: slots, live_count, tombstone_count and
\* capacity are as before and no destructor is called; and right after a delete
\* of k that returned 1, a delete of k returns 0.
C15_DeleteAbsent ==
  [][\A k \in Keys :
       /\ (amap[k] = 0 /\ last'.op = "delete" /\ Delete(MainThread, k)) =>
            /\ last'.ret = 0
            /\ UNCHANGED table
            /\ freed' = NoneFreed
            /\ owned' = owned
       /\ (last'.op = "delete" /\ last'.ret = 1 /\ Delete(MainThread, k)) =>
            /\ DeleteOp(HT, hash, k)'.ret = 0
            /\ DeleteOp(HT, hash, k)'.ht = HT']_vars

\* A delete missed in a table that holds a live key and a tombstone.
C15_Witness ==
  /\ Returned("delete", 0)
  /\ size >= 1
  /\ deleted_count >= 1

\* C16: clear makes live_count and tombstone_count 0 and every slot Empty,
\* Occupied and Deleted alike, and leaves capacity as it was; then get returns
\* the absent sentinel for every key, and a set of any key succeeds and makes
\* live_count 1.
C16_Clear ==
  [][(last'.op = "clear" /\ Clear(MainThread)) =>
       /\ size' = 0
       /\ deleted_count' = 0
       /\ capacity' = capacity
       /\ \A i \in Slots(HT) : entries'[i].state = HT_SLOT_EMPTY
       /\ \A k \in Keys : GetOp(HT, hash, k)' = 0
       /\ \A k \in Keys, v \in Values, ok \in BOOLEAN :
            \A r \in {SetOp(HT, hash, k, v, ok)'} :
              /\ r.ret = HT_SUCCESS
              /\ r.ht.size = 1
              /\ GetOp(r.ht, hash, k) = v]_vars

\* clear has emptied a table that had grown and held several entries.
C16_Witness ==
  /\ last.op = "clear"
  /\ freed.keys >= 2
  /\ capacity = 2 * InitialCapacity
  /\ size = 0

\* C17: after reserve(c) returns HT_SUCCESS capacity >= c. When c is at most the
\* capacity the call changes nothing; otherwise the new capacity is at least c
\* and at least live_count + tombstone_count, every key keeps its value,
\* live_count is as before and tombstone_count is 0.
C17_Reserve ==
  [][\A c \in ReserveRequests, ok \in BOOLEAN :
       (Returned("reserve", HT_SUCCESS)' /\ Reserve(MainThread, c, ok)) =>
         /\ capacity' >= c
         /\ IF c <= capacity
              THEN UNCHANGED table
              ELSE /\ capacity' >= size + deleted_count
                   /\ \A k \in Keys : GetOp(HT, hash, k)' = GetOp(HT, hash, k)
                   /\ size' = size
                   /\ deleted_count' = 0
                   /\ SlotsIn(HT, HT_SLOT_DELETED)' = {}]_vars

\* reserve has rehashed live entries into a capacity that is no power of two.
C17_Witness ==
  /\ Returned("reserve", HT_SUCCESS)
  /\ last.resized
  /\ size >= 2
  /\ capacity = InitialCapacity + ReserveStep

\* C18: on entry set resizes the table if and only if, on the counts of before
\* the insertion, (live_count + tombstone_count) / capacity > 0.75 or
\* tombstone_count > live_count / 2 (integer division), and the capacity it
\* resizes to is exactly twice the capacity.
C18_TriggerPolicy ==
  [][\A k \in FillKeySet :
       (Returned("set", HT_SUCCESS)' /\ Set(MainThread, k, 1, TRUE)) =>
         /\ last'.resized <=>
              \/ 4 * (size + deleted_count) > 3 * capacity
              \/ deleted_count > size \div 2
         /\ capacity' = IF last'.resized THEN 2 * capacity ELSE capacity]_vars

\* A set has doubled a table that was filled past three quarters and held no
\* tombstone.
C18_Witness ==
  /\ Returned("set", HT_SUCCESS)
  /\ last.resized
  /\ size = FillKeys
  /\ capacity = 2 * InitialCapacity
  /\ owned.keys = FillKeys

\* The states of the slots.
SlotStates == [i \in Slots(HT) |-> entries[i].state]

\* C19 as claimed: a successful set whose key is already present never
\* resizes: capacity, the slot layout and tombstone_count are as before.
C19_UpdateNeverResizes ==
  [][\A k \in Keys, v \in Values :
       (amap[k] # 0 /\ SetReturned(k, v) /\ Set(MainThread, k, v, TRUE)) =>
         /\ ~last'.resized
         /\ capacity' = capacity
         /\ SlotStates' = SlotStates
         /\ deleted_count' = deleted_count]_vars

\* C19 (amended): the trigger is evaluated on entry to every set, before the
\* probe: a set whose key is already present resizes (or fails on the
\* allocation) exactly when the trigger holds of the counts on entry, and then
\* doubles the capacity and leaves no tombstone; when the trigger does not hold
\* it leaves capacity, the slot layout and tombstone_count unchanged.
C19_UpdateResizesOnTrigger ==
  [][\A k \in Keys, v \in Values, ok \in BOOLEAN :
       (/\ amap[k] # 0
        /\ IF ok THEN SetReturned(k, v) ELSE Returned("set", HT_ERROR_MEMORY)'
        /\ Set(MainThread, k, v, ok)) =>
         IF 4 * (size + deleted_count) > 3 * capacity \/ deleted_count > size \div 2
           THEN IF ok
                  THEN /\ last'.resized
                       /\ capacity' = 2 * capacity
                       /\ deleted_count' = 0
                       /\ SlotsIn(HT, HT_SLOT_DELETED)' = {}
                  ELSE last'.ret = HT_ERROR_MEMORY /\ UNCHANGED table
           ELSE /\ last'.ret = HT_SUCCESS
                /\ ~last'.resized
                /\ capacity' = capacity
                /\ SlotStates' = SlotStates
                /\ deleted_count' = deleted_count]_vars

\* A set of a present key has resized the table and destroyed the old value.
C19_Witness ==
  /\ Returned("set", HT_SUCCESS)
  /\ last.resized
  /\ freed = [keys |-> 0, values |-> 1]

\* The table create returns: InitialCapacity Empty slots, no entry, no tombstone.
FreshTable ==
  [entries |-> Calloc(InitialCapacity), capacity |-> InitialCapacity,
   size |-> 0, deleted_count |-> 0]

\* The table after set(x, 1) and delete(x) on a fresh table.
AfterSetDelete(x) == DeleteOp(SetOp(FreshTable, hash, x, 1, TRUE).ht, hash, x).ht

\* The slot that holds key in t.
SlotOf(t, key) ==
  CHOOSE i \in Slots(t) :
    t.entries[i].state = HT_SLOT_OCCUPIED /\ t.entries[i].key = key

\* C20 as claimed: after set(x,1), delete(x) on a fresh table, with x's
\* tombstone on y's probe path, set(y,2) stores y by reclaiming that tombstone,
\* at or before x's old position, and get(x) is absent.
C20_ScenarioReclaimsTombstone ==
  [][\A x, y \in Keys :
       (/\ x # y
        /\ HT = AfterSetDelete(x)
        /\ SetProbe(HT, hash, y).first_deleted # NoIndex
        /\ SetReturned(y, 2)
        /\ Set(MainThread, y, 2, TRUE)) =>
         /\ capacity' = capacity
         /\ entries'[SetProbe(HT, hash, y).first_deleted] =
              [key |-> y, value |-> 2, state |-> HT_SLOT_OCCUPIED]
         /\ SlotOf(HT, y)' <= SetProbe(HT, hash, y).first_deleted
         /\ GetOp(HT, hash, x)' = 0]_vars

\* C20 (amended): after set(x,1), delete(x) on a fresh table the tombstone
\* trigger holds (1 > 0 div 2), so set(y,2) first doubles the table, which
\* discards x's tombstone, and stores y in its home slot of the new array, no
\* tombstone remaining; get(x) is absent and get(y) is 2. An insertion that
\* does not resize and has a tombstone on its probe path stores the key in the
\* first tombstone of the path and counts one tombstone less.
C20_ScenarioResizesFirst ==
  [][\A y \in Keys :
       (amap[y] = 0 /\ SetReturned(y, 2) /\ Set(MainThread, y, 2, TRUE)) =>
         /\ \A x \in Keys \ {y} :
              HT = AfterSetDelete(x) =>
                /\ last'.resized
                /\ capacity' = 2 * InitialCapacity
                /\ size' = 1
                /\ deleted_count' = 0
                /\ SlotsIn(HT, HT_SLOT_DELETED)' = {}
                /\ entries'[HashOf(hash, y) % capacity'] =
                     [key |-> y, value |-> 2, state |-> HT_SLOT_OCCUPIED]
                /\ GetOp(HT, hash, x)' = 0
                /\ GetOp(HT, hash, y)' = 2
         /\ (~last'.resized /\ SetProbe(HT, hash, y).first_deleted # NoIndex) =>
              /\ capacity' = capacity
              /\ entries' = [entries EXCEPT ![SetProbe(HT, hash, y).first_deleted] =
                               [key |-> y, value |-> 2, state |-> HT_SLOT_OCCUPIED]]
              /\ deleted_count' = deleted_count - 1
              /\ size' = size + 1]_vars

\* The scenario has run: one key is held, with value 2, in a doubled table
\* without tombstone, beyond every slot index of the first array.
C20_Witness ==
  /\ Returned("set", HT_SUCCESS)
  /\ last.resized
  /\ capacity = 2 * InitialCapacity
  /\ size = 1
  /\ deleted_count = 0
  /\ freed = NoneFreed
  /\ \E y \in Keys : amap[y] = 2 /\ SlotOf(HT, y) >= InitialCapacity

\* ---------------------------------------------------- colliding keys
\* One caller with the constant hash of test_edge_cases: every key starts its
\* probe at the same slot. Each key is set with a value of its own, in ascending
\* order but for the first key, which may come at any time; keys are looked up
\* at any time.
OwnValue(k) == (k % MaxVal) + 1

InitCollide ==
  /\ InitTable
  /\ hash = CollisionHash

NextCollide ==
  \/ \E k \in FillKeySet : FillOrder(k) /\ Set(MainThread, k, OwnValue(k), TRUE)
  \/ \E k \in FillKeySet : Get(MainThread, k)

SpecCollide == InitCollide /\ [][NextCollide]_vars

\* C21: with a constant hash every key set so far is retrievable with its own
\* value, every key not set is absent, and the probe loops of get and set (and
\* the placement loop of the resize a set causes) end for every key.
C21_CollidingKeysRetrievable ==
  \A k \in FillKeySet :
    /\ amap[k] \in {0, OwnValue(k)}
    /\ Find(HT, hash, k) # NoIndex
    /\ GetOp(HT, hash, k) = amap[k]
    /\ ~SetHangs(HT, hash, k, TRUE)

\* All keys collide in the doubled table, and the last one, the furthest from
\* the common start slot, has just been looked up with its own value.
C21_Witness ==
  /\ hash = CollisionHash
  /\ size = FillKeys
  /\ capacity = 2 * InitialCapacity
  /\ last = [op |-> "get", ret |-> OwnValue(FillKeys), resized |-> FALSE]
  /\ OwnValue(FillKeys) # OwnValue(FillKeys - 1)
  /\ \E i \in Slots(HT) :
       /\ entries[i].key = FillKeys
       /\ i >= CollisionHash[FillKeys] + FillKeys - 1

\* ------------------------------------------------------------ iteration
\* One caller that builds a table with sets and deletes and then iterates over
\* it, as test_iterator does: once an iterator exists the table is not mutated;
\* a new iterator may be created at any time.
InitIter ==
  /\ InitTable
  /\ hash \in {WrapHash, SpreadHash}

NextIter ==
  \/ \E k \in Keys, v \in Values :
       iter[MainThread] = NoIndex /\ Set(MainThread, k, v, TRUE)
  \/ \E k \in Keys : iter[MainThread] = NoIndex /\ Delete(MainThread, k)
  \/ IterCreate(MainThread)
  \/ IterNext(MainThread)

SpecIter == InitIter /\ [][NextIter]_vars

\* The pairs of the Occupied slots below index, in ascending slot order.
RECURSIVE OccupiedSeq(_, _)
OccupiedSeq(t, index) ==
  IF index = 0 THEN <<>>
  ELSE IF t.entries[index - 1].state = HT_SLOT_OCCUPIED
    THEN Append(OccupiedSeq(t, index - 1),
                <<t.entries[index - 1].key, t.entries[index - 1].value>>)
  ELSE OccupiedSeq(t, index - 1)

\* C22: while the table is not mutated, what an iterator has yielded is the
\* pairs of the Occupied slots below its cursor, each once, in ascending slot
\* order; an iter_next that returned 1 yielded the pair of the slot just below
\* the cursor; one that returned 0 left the cursor at capacity after live_count
\* pairs, one for each key present; and at capacity iter_next returns 0 and
\* leaves the cursor where it is.
C22_IterationYieldsAll ==
  \A t \in Threads :
    iter[t] # NoIndex =>
      /\ iter[t] \in 0..capacity
      /\ yielded[t] = OccupiedSeq(HT, iter[t])
      /\ \A i, j \in 1..Len(yielded[t]) : i # j => yielded[t][i][1] # yielded[t][j][1]
      /\ last.op = "iter_next" =>
           IF last.ret = 1
             THEN /\ iter[t] >= 1
                  /\ entries[iter[t] - 1].state = HT_SLOT_OCCUPIED
                  /\ yielded[t][Len(yielded[t])] =
                       <<entries[iter[t] - 1].key, entries[iter[t] - 1].value>>
             ELSE /\ iter[t] = capacity
                  /\ Len(yielded[t]) = size
                  /\ {yielded[t][i] : i \in 1..Len(yielded[t])} =
                       {<<k, amap[k]>> : k \in {j \in Keys : amap[j] # 0}}
      /\ iter[t] = capacity =>
           IterNextOp(HT, iter[t]) = [index |-> capacity, ret |-> 0, key |-> 0, value |-> 0]

\* An iteration over a table with a tombstone between two Occupied slots has
\* ended: it yielded both pairs and returned 0.
C22_Witness ==
  /\ last = [op |-> "iter_next", ret |-> 0, resized |-> FALSE]
  /\ iter[MainThread] = capacity
  /\ Len(yielded[MainThread]) = 2
  /\ size = 2
  /\ deleted_count = 1
  /\ \E i, j, d \in Slots(HT) :
       /\ i < d /\ d < j
       /\ entries[i].state = HT_SLOT_OCCUPIED
       /\ entries[d].state = HT_SLOT_DELETED
       /\ entries[j].state = HT_SLOT_OCCUPIED

\* C23: a get, hit or miss, leaves every slot, live_count, tombstone_count and
\* capacity as they were; it returns the value stored under the key, and the
\* zero sentinel for a key that is not present.
C23_GetReadOnly ==
  [][\A k \in Keys :
       (last'.op = "get" /\ Get(MainThread, k)) =>
         /\ entries' = entries
         /\ size' = size
         /\ deleted_count' = deleted_count
         /\ capacity' = capacity
         /\ last'.ret = amap[k]
         /\ amap[k] = 0 => last'.ret = 0]_vars

\* A get of an absent key has returned the sentinel from a table that holds an
\* entry and a tombstone.
C23_Witness ==
  /\ last = [op |-> "get", ret |-> 0, resized |-> FALSE]
  /\ size >= 1
  /\ deleted_count >= 1

\* The keys held in Occupied slots.
StoredKeys(t) == {t.entries[i].key : i \in SlotsIn(t, HT_SLOT_OCCUPIED)}

\* C24: after any sequence of set, delete, clear and reserve, live_count is the
\* number of distinct keys present: the keys set and not deleted or cleared
\* since, which are the keys of the Occupied slots, one slot each.
C24_SizeCountsKeys ==
  /\ size = Cardinality({k \in AllKeys : amap[k] # 0})
  /\ size = Cardinality(StoredKeys(HT))
  /\ size = Cardinality(SlotsIn(HT, HT_SLOT_OCCUPIED))
  /\ StoredKeys(HT) = {k \in AllKeys : amap[k] # 0}

\* Every key has been inserted and deleted again: live_count is back to 0 with
\* one tombstone per key.
C24_Witness ==
  /\ last = [op |-> "delete", ret |-> 1, resized |-> FALSE]
  /\ size = 0
  /\ deleted_count = MaxKey
  /\ StoredKeys(HT) = {}

\* C25: with the default compare two keys match exactly when they are the same
\* address: a slot's key matches no other address, whatever the two point to,
\* and get with an address that was not set returns the absent sentinel even
\* when an address that points to an equal value is present.
C25_IdentityCompare ==
  /\ \A i \in SlotsIn(HT, HT_SLOT_OCCUPIED), k \in Keys :
       Compare(entries[i].key, k) <=> entries[i].key = k
  /\ \A k, j \in Keys :
       (k # j /\ Pointee(k) = Pointee(j) /\ amap[j] # 0 /\ amap[k] = 0) =>
         /\ Find(HT, hash, k) = NotFound
         /\ GetOp(HT, hash, k) = 0
         /\ GetOp(HT, hash, j) = amap[j]

\* As in test_defaults: the addresses of a and b are in the table, and get with
\* the address of c, which points to a value equal to a's, has returned 0.
C25_Witness ==
  /\ last = [op |-> "get", ret |-> 0, resized |-> FALSE]
  /\ Pointee(1) = Pointee(3)
  /\ amap[1] # 0
  /\ amap[2] # 0
  /\ amap[3] = 0
  /\ size = 2

\* ---------------------------------------------------------------- create
\* One caller that starts without a table: it calls create until memory is
\* available, and then sets, gets and deletes.
InitCreate ==
  /\ entries = NoTable.entries
  /\ capacity = NoTable.capacity
  /\ size = NoTable.size
  /\ deleted_count = NoTable.deleted_count
  /\ hash \in {WrapHash, SpreadHash}
  /\ rwlock = Unlocked
  /\ alive = "none"
  /\ heap = {}
  /\ last = NoCall
  /\ amap = [k \in AllKeys |-> 0]
  /\ pc = [t \in Threads |-> "idle"]
  /\ arg = [t \in Threads |-> NoArg]
  /\ probe = [t \in Threads |-> NoProbe]
  /\ iter = [t \in Threads |-> NoIndex]
  /\ yielded = [t \in Threads |-> <<>>]
  /\ owned = NoneFreed
  /\ freed = NoneFreed

NextCreate ==
  \/ \E struct_ok, entries_ok \in BOOLEAN : Create(MainThread, struct_ok, entries_ok)
  \/ \E k \in Keys, v \in Values : Set(MainThread, k, v, TRUE)
  \/ \E k \in Keys : Get(MainThread, k)
  \/ \E k \in Keys : Delete(MainThread, k)

SpecCreate == InitCreate /\ [][NextCreate]_vars

\* C26: a create that gets its memory returns a table with capacity 16,
\* live_count 0, tombstone_count 0 and every slot Empty, the state every other
\* specification starts from; a create whose allocation of the struct or of
\* the slot array fails returns NULL and leaves no block allocated.
C26_Create ==
  [][\A struct_ok, entries_ok \in BOOLEAN :
       (last'.op = "create" /\ Create(MainThread, struct_ok, entries_ok)) =>
         IF struct_ok /\ entries_ok
           THEN /\ last'.ret = 1
                /\ capacity' = 16
                /\ size' = 0
                /\ deleted_count' = 0
                /\ DOMAIN entries' = 0..15
                /\ \A i \in DOMAIN entries' : entries'[i].state = HT_SLOT_EMPTY
                /\ HT' = FreshTable
                /\ heap' = {"ht", "entries"}
                /\ alive' = "live"
           ELSE /\ last'.ret = 0
                /\ heap' = {}
                /\ alive' = "none"
                /\ UNCHANGED table]_vars

\* A create has failed: it returned NULL and nothing is allocated.
C26_Witness ==
  /\ last = [op |-> "create", ret |-> 0, resized |-> FALSE]
  /\ heap = {}
  /\ alive = "none"

\* C27: a delete, hit or miss, changes the result of get for no other key: a
\* key that is present is found in the slot it was in, also when the deleted
\* key's slot lies on its probe path, and a key that is absent stays absent.
C27_DeleteKeepsOthers ==
  [][\A k \in Keys :
       (last'.op = "delete" /\ Delete(MainThread, k)) =>
         \A j \in Keys \ {k} :
           /\ GetOp(HT, hash, j)' = GetOp(HT, hash, j)
           /\ GetOp(HT, hash, j)' = amap[j]
           /\ Find(HT, hash, j)' = Find(HT, hash, j)]_vars

\* A delete has left a tombstone in the slot where the probe for a key that is
\* still present starts: the key is found beyond the tombstone.
C27_Witness ==
  /\ Returned("delete", 1)
  /\ \E j \in Keys :
       /\ amap[j] # 0
       /\ entries[HashOf(hash, j) % capacity].state = HT_SLOT_DELETED
       /\ Find(HT, hash, j) # HashOf(hash, j) % capacity
       /\ GetOp(HT, hash, j) = amap[j]

\* The slots a probe visits from slot `from` before it reaches slot `to`,
\* wrapping around the end of the array.
CyclicPath(t, from, to) ==
  {(from + n) % t.capacity : n \in 0..(((to - from + t.capacity) % t.capacity) - 1)}

\* The path from the start slot of the key held in Occupied slot i up to i.
PathTo(t, h, i) == CyclicPath(t, HashOf(h, t.entries[i].key) % t.capacity, i)

\* C28: for every Occupied slot i, no slot on the cyclic path from the start
\* slot of its key up to, but excluding, i is Empty.
C28_ProbeInvariant ==
  \A i \in SlotsIn(HT, HT_SLOT_OCCUPIED) :
    \A j \in PathTo(HT, hash, i) : entries[j].state # HT_SLOT_EMPTY

\* A key sits two or more slots from its start slot, around the end of the
\* array, with a tombstone on its path.
C28_Witness ==
  \E i \in SlotsIn(HT, HT_SLOT_OCCUPIED) :
    /\ Cardinality(PathTo(HT, hash, i)) >= 2
    /\ i < HashOf(hash, entries[i].key) % capacity
    /\ \E j \in PathTo(HT, hash, i) : entries[j].state = HT_SLOT_DELETED

\* C29: in every state at least one slot is Empty, live_count +
\* tombstone_count being below capacity: capacity never falls below 16 and the
\* counts pass three quarters of it by no more than the one insertion made
\* after the trigger was tested. So for every key, present or absent, the
\* probe loops of get and delete and of set end, and so does the placement
\* loop of a resize of this table.
C29_EmptySlotRemains ==
  /\ capacity >= InitialCapacity
  /\ 4 * (size + deleted_count - 1) <= 3 * capacity
  /\ size + deleted_count < capacity
  /\ SlotsIn(HT, HT_SLOT_EMPTY) # {}
  /\ ~ResizeHangs(HT, hash, GrowCapacity(HT))
  /\ \A k \in AllKeys :
       /\ Find(HT, hash, k) # NoIndex
       /\ SetProbe(HT, hash, k).index # NoIndex
       /\ ~SetHangs(HT, hash, k, TRUE)

\* The fullest table: fewer than a quarter of the 16 slots are Empty, some of
\* the others being tombstones.
C29_Witness ==
  /\ capacity = InitialCapacity
  /\ 4 * Cardinality(SlotsIn(HT, HT_SLOT_EMPTY)) < capacity
  /\ SlotsIn(HT, HT_SLOT_DELETED) # {}
  /\ \E k \in AllKeys : amap[k] = 0 /\ Find(HT, hash, k) = NotFound

\* How far from slot `from` the first slot in the given state lies, probing
\* cyclically; t.capacity when there is no such slot.
StepsTo(t, from, state) ==
  LET steps == {n \in 0..(t.capacity - 1) : t.entries[(from + n) % t.capacity].state = state}
  IN  IF steps = {} THEN t.capacity
      ELSE CHOOSE n \in steps : \A m \in steps : n <= m

\* C30: a set of an absent key that does not resize writes the pair into the
\* first Deleted slot of its probe path, the path from the start slot to the
\* Empty slot that ends it, if the path has one, and then tombstone_count is
\* one less; otherwise it writes the pair into that Empty slot and
\* tombstone_count is as before. live_count is one more either way, capacity
\* and every other slot are as before.
C30_InsertSlot ==
  [][\A k \in Keys, v \in Values :
       (/\ amap[k] = 0
        /\ SetReturned(k, v)
        /\ ~last'.resized
        /\ Set(MainThread, k, v, TRUE)) =>
         LET start == HashOf(hash, k) % capacity
             toEmpty == StepsTo(HT, start, HT_SLOT_EMPTY)
             toDeleted == StepsTo(HT, start, HT_SLOT_DELETED)
             reclaims == toDeleted < toEmpty
             slot == (start + (IF reclaims THEN toDeleted ELSE toEmpty)) % capacity
         IN  /\ toEmpty < capacity
             /\ entries' = [entries EXCEPT
                              ![slot] = [key |-> k, value |-> v, state |-> HT_SLOT_OCCUPIED]]
             /\ deleted_count' = IF reclaims THEN deleted_count - 1 ELSE deleted_count
             /\ size' = size + 1
             /\ capacity' = capacity]_vars

\* An insertion without a resize has made a chain of colliding keys complete,
\* without tombstone: a key was written at the end of the chain, or into the
\* tombstone its deletion had left in the chain.
C30_Witness ==
  /\ Returned("set", HT_SUCCESS)
  /\ ~last.resized
  /\ freed = NoneFreed
  /\ hash = WrapHash
  /\ capacity = InitialCapacity
  /\ size = MaxKey
  /\ deleted_count = 0
  /\ StepsTo(HT, HashOf(hash, 1) % capacity, HT_SLOT_EMPTY) = MaxKey

\* C31: under every interleaving of sets, gets and the other calls on the same
\* keys, the step in which a get clones a value is taken with the read lock
\* held and no writer inside: the slot it reads is still the Occupied slot of
\* its key in a live table, so the value has not been passed to value_free, and
\* the clone has the content of the value the latest set of that key stored,
\* the value argument of some set, never the sentinel.
C31_CloneUnderReadLock ==
  [][\A t \in Threads :
       (pc[t] = "get_copy" /\ pc'[t] = "idle") =>
         /\ t \in rwlock.readers
         /\ rwlock.writer = 0
         /\ alive = "live"
         /\ \A u \in Threads : pc[u] \notin InWrite
         /\ probe[t].index \in Slots(HT)
         /\ entries[probe[t].index].state = HT_SLOT_OCCUPIED
         /\ entries[probe[t].index].key = arg[t].key
         /\ last'.op = "get"
         /\ last'.ret = entries[probe[t].index].value
         /\ last'.ret = amap[arg[t].key]
         /\ last'.ret \in Threads
         /\ UNCHANGED <<table, owned>>]_vars

\* A get is about to clone the value one thread stored for its key while the
\* other thread, with a set of the same key that will free that value, waits
\* for the lock.
C31_Witness ==
  /\ pc[1] = "get_copy"
  /\ 1 \in rwlock.readers
  /\ entries[probe[1].index].value = 1
  /\ pc[2] = "set_wrlock"
  /\ arg[2].key = arg[1].key
  /\ owned.values >= 1

\* C32: destroy is serialized against the other operations: no thread that
\* waited for the lock while destroy ran goes on to use the slot array, the
\* lock or the table struct once destroy has freed them.
C32_NoUseAfterDestroy == alive # "use_after_free"


\* The thread that is inside destroy, if any.
Destroyer(t) ==
  pc[t] \in {"destroy_body", "destroy_free", "destroy_unlock", "destroy_finish",
            "destroy_free_ht"}

\* C33: destroy performs its steps in this order: acquire the write lock,
\* pass every Occupied slot's key and value to the destructors, free the slot
\* array, release the lock, destroy the lock object, free the table struct; no
\* destructor callback runs after the slot array is freed.  Every step that
\* runs destructors, frees a block or changes the lifetime stage is the next
\* stage of the thread inside destroy, taken in that order.
C33_DestroyOrder ==
  [][/\ freed' # NoneFreed => (alive = "live" /\ heap' = {"ht", "entries"})
     /\ (alive = "live" /\ alive' # alive) =>
          /\ alive' = "objects_freed"
          /\ heap' = heap
          /\ \E t \in Threads : rwlock.writer = t /\ pc[t] = "destroy_body"
          /\ freed' = DestroyFrees(HT)
     /\ (alive = "objects_freed" /\ alive' # alive) =>
          /\ alive' = "entries_freed"
          /\ heap = {"ht", "entries"} /\ heap' = {"ht"}
          /\ \E t \in Threads : rwlock.writer = t /\ rwlock'.writer = t
     /\ (alive = "entries_freed" /\ alive' # alive) =>
          \/ alive' = "use_after_free"
          \/ /\ alive' = "lock_destroyed"
             /\ heap' = heap
             /\ \E t \in Threads : Destroyer(t) /\ rwlock.writer # t
     /\ (alive = "lock_destroyed" /\ alive' # alive) =>
          \/ alive' = "use_after_free"
          \/ /\ alive' = "destroyed"
             /\ heap = {"ht"} /\ heap' = {}
     /\ (rwlock.writer # 0 /\ rwlock'.writer = 0 /\ \E t \in Threads : Destroyer(t)) =>
          /\ alive = "entries_freed"
          /\ heap = {"ht"}
     /\ heap' # heap => alive' \in {"entries_freed", "destroyed"}]_vars

\* A destroy of a table that held a key has run to its end: both blocks are
\* freed, the lock is released and every thread is back from its call.
C33_Witness ==
  /\ alive = "destroyed"
  /\ heap = {}
  /\ last.op = "destroy"
  /\ size >= 1
  /\ rwlock.writer = 0
  /\ \A t \in Threads : pc[t] = "idle"


\* Threads calling every operation on one key, under fair scheduling: a thread
\* that can run goes on running. The lock is created with default attributes
\* (pthread_rwlock_init(&lock, NULL)): which of the threads waiting in
\* pthread_rwlock_wrlock / rdlock is granted a free lock is up to the
\* implementation, and a reader is granted a lock that readers hold.
LiveKey == 1

NextLive ==
  \E t \in Threads :
    \/ SetCall(t, LiveKey, t)
    \/ GetCall(t, LiveKey)
    \/ DeleteCall(t, LiveKey)
    \/ ClearCall(t)
    \/ ReserveCall(t, MaxCapacity)
    \/ DestroyCall(t)
    \/ ThreadStep(t)

FairScheduling == \A t \in Threads : WF_vars(ThreadStep(t))

SpecLive == InitConc /\ [][NextLive]_vars /\ FairScheduling

\* Thread t holds the lock.
Holds(t) == rwlock.writer = t \/ t \in rwlock.readers

\* C34 as claimed: whenever no operation is in progress the lock is free, and
\* under fair scheduling every operation that requests the lock on a table
\* nobody destroys meanwhile is granted it and returns.
C34_EveryWaiterGranted ==
  /\ [](Quiescent => rwlock = Unlocked)
  /\ \A t \in Threads :
       (pc[t] \in LockWaits \ {"destroy_wrlock"}) ~> (pc[t] = "idle" \/ alive # "live")

\* C34 (amended): every public operation releases the lock it acquired on
\* every return path: a thread between calls holds no lock, so whenever no
\* operation is in progress the lock is free, and under fair scheduling every
\* operation that has been granted the lock returns, the lock released. (An
\* operation waiting for the lock is granted it only if the implementation of
\* the lock picks it.)
C34_LockReleased ==
  /\ [](Quiescent => rwlock = Unlocked)
  /\ [](\A t \in Threads : pc[t] = "idle" => ~Holds(t))
  /\ \A t \in Threads : Holds(t) ~> (pc[t] = "idle" /\ ~Holds(t))
  /\ \A t \in Threads : (pc[t] \in InWrite \cup InRead) ~> ~Holds(t)

\* A set has just returned HT_ERROR_MEMORY from its failed resize while the
\* other thread waits for the lock, which is free.
C34_Witness ==
  /\ Returned("set", HT_ERROR_MEMORY)
  /\ alive = "live"
  /\ rwlock = Unlocked
  /\ \E t \in Threads : pc[t] = "idle" /\ \E u \in Threads : pc[u] \in LockWaits


\* C35: counter consistency: whenever no write operation is in progress, size
\* is the number of slots in state Occupied and deleted_count the number of
\* slots in state Deleted; every slot is in one of the three states, so the
\* Empty slots are the rest of the capacity.
C35_CountersConsistent ==
  (alive = "live" /\ \A t \in Threads : pc[t] \notin InWrite) =>
    /\ size = Cardinality(SlotsIn(HT, HT_SLOT_OCCUPIED))
    /\ deleted_count = Cardinality(SlotsIn(HT, HT_SLOT_DELETED))
    /\ Cardinality(SlotsIn(HT, HT_SLOT_EMPTY)) = capacity - size - deleted_count

\* A set has resized a table that held tombstones and has returned; the table
\* holds a live key and a new tombstone, one thread reads it and the other
\* waits to write.
C35_Witness ==
  /\ alive = "live"
  /\ capacity > InitialCapacity
  /\ size >= 1
  /\ deleted_count >= 1
  /\ \E t \in Threads : pc[t] \in InRead
  /\ \E t \in Threads : pc[t] \in LockWaits


\* C36: capacity never decreases: across every set, delete, clear and reserve
\* the capacity after the operation is >= the capacity before it, delete,
\* clear and get leave it exactly unchanged, and so capacity is always >= 16,
\* its value at creation.
C36_CapacityNeverDecreases ==
  /\ [](capacity >= InitialCapacity)
  /\ [][/\ capacity' >= capacity
        /\ last'.op \in {"get", "delete", "clear"} => capacity' = capacity
        /\ (last'.op \in {"set", "reserve"} /\ ~last'.resized) => capacity' = capacity]_vars

\* A reserve below the capacity has just returned on a table that had grown
\* and was emptied since: the capacity stayed.
C36_Witness ==
  /\ Returned("reserve", HT_SUCCESS)
  /\ ~last.resized
  /\ capacity > InitialCapacity
  /\ size = 0


\* ---------------------------------------------------- insert/delete churn
\* One caller repeating set(k, v) then delete(k) on a table that is empty
\* between the cycles, looking keys up in between; memory always available, up
\* to the capacity MaxCycles cycles lead to.
RECURSIVE Pow2(_)
Pow2(n) == IF n = 0 THEN 1 ELSE 2 * Pow2(n - 1)

ChurnCapacity == InitialCapacity * Pow2(MaxCycles - 1)

NextChurn ==
  \/ \E k \in Keys, v \in Values :
       size = 0 /\ SetUpTo(MainThread, k, v, TRUE, ChurnCapacity)
  \/ \E k \in Keys : amap[k] # 0 /\ Delete(MainThread, k)
  \/ \E k \in Keys : Get(MainThread, k)

SpecChurn == Init /\ [][NextChurn]_vars

\* The table after n cycles of set(k, 1), delete(k) on a fresh table.
RECURSIVE Churn(_, _, _)
Churn(h, k, n) ==
  IF n = 0 THEN FreshTable
  ELSE DeleteOp(SetOp(Churn(h, k, n - 1), h, k, 1, TRUE).ht, h, k).ht

\* set resizes for the tombstone condition alone.
TombstonesOnly(t) == TombstonesExceeded(t) /\ ~LoadFactorExceeded(t)

\* C37: a resize that set triggers only through the tombstone condition still
\* doubles capacity rather than rehashing in place; so n cycles of set(k),
\* delete(k) from a fresh table leave size 0 and capacity 16 * 2^(n-1), the
\* capacity doubling on every set after the first, while at most one entry is
\* ever live.
C37_TombstoneResizeDoubles ==
  /\ [][\A k \in Keys, v \in Values :
          (TombstonesOnly(HT) /\ SetUpTo(MainThread, k, v, TRUE, ChurnCapacity)) =>
            /\ last'.resized
            /\ capacity' = 2 * capacity
            /\ deleted_count' = 0
            /\ size' = 1]_vars
  /\ [](size <= 1)
  /\ [](\A n \in 1..MaxCycles, k \in Keys :
          /\ Churn(hash, k, n).size = 0
          /\ Churn(hash, k, n).deleted_count = 1
          /\ Churn(hash, k, n).capacity = InitialCapacity * Pow2(n - 1))
  /\ [](Returned("delete", 1) =>
          \E n \in 1..MaxCycles, k \in Keys : HT = Churn(hash, k, n))

\* MaxCycles cycles have run: the table is empty but for one tombstone, and its
\* capacity is 16 * 2^(MaxCycles-1).
C37_Witness ==
  /\ Returned("delete", 1)
  /\ size = 0
  /\ deleted_count = 1
  /\ capacity = InitialCapacity * Pow2(MaxCycles - 1)
  /\ capacity > 2 * InitialCapacity

====
